---------------------------- MODULE Spec2Model ----------------------------
(***************************************************************************)
(* PySnake: the three grid Snake games of the repository.                  *)
(*                                                                         *)
(*   pi     Game of src/realistic_snake_game.py:1-448  (cadence timer,     *)
(*          bounded spawn retries)                                         *)
(*   real   Game of src/realistic_snake.py:410-1006    (cadence timer,     *)
(*          unbounded apple spawn)                                         *)
(*   retro  SnakeGame of src/retro_snake_game.py       (frame ticks,       *)
(*          power-ups, obstacles, session state machine)                   *)
(*   unit   the two Snake classes driven side by side through their        *)
(*          public methods                                                 *)
(*                                                                         *)
(* Random draws are set-valued operators: an operator that calls the       *)
(* random generator returns the set of states it can return.  Times are    *)
(* integers in units of 10 ms.                                             *)
(***************************************************************************)
EXTENDS Integers, Sequences, FiniteSets, TLC

VARIABLES pi, real, retro, unit

vars == <<pi, real, retro, unit>>

(***************************************************************************)
(* Shared vocabulary                                                       *)
(***************************************************************************)
Direction == {"UP", "DOWN", "LEFT", "RIGHT"}

\* Direction.value
DirVec(d) ==
    CASE d = "UP"    -> <<0, -1>>
      [] d = "DOWN"  -> <<0, 1>>
      [] d = "LEFT"  -> <<-1, 0>>
      [] d = "RIGHT" -> <<1, 0>>

\* the `opposite` dictionary of Snake.set_direction
Opposite(d) ==
    CASE d = "UP"    -> "DOWN"
      [] d = "DOWN"  -> "UP"
      [] d = "LEFT"  -> "RIGHT"
      [] d = "RIGHT" -> "LEFT"

Range(s) == {s[i] : i \in 1..Len(s)}

Min(a, b) == IF a < b THEN a ELSE b

Max(a, b) == IF a > b THEN a ELSE b

Add(c, v) == <<c[1] + v[1], c[2] + v[2]>>

\* `None`
None == <<>>

(***************************************************************************)
(* Pi variant: Snake                                                       *)
(***************************************************************************)
PiGridWidth == 2

PiGridHeight == 2

PiCells == (0..(PiGridWidth - 1)) \X (0..(PiGridHeight - 1))

\* Snake.move_delay after construction, 0.2 s
PiMoveDelay == 20

\* the floor of move_delay, 0.1 s
PiMinDelay == 10

\* the speed-up step, 0.02 s
PiDelayStep == 2

\* the cap on dt, 0.05 s
PiDtCap == 5

\* Snake.__init__
Snake(start_x, start_y) ==
    [segments       |-> << <<start_x, start_y>> >>,
     direction      |-> "RIGHT",
     next_direction |-> "RIGHT",
     growing        |-> FALSE,
     move_timer     |-> 0,
     move_delay     |-> PiMoveDelay]

\* set_direction testing the request against the pending direction instead
\* of the direction of the last move
set_direction_against_pending(s, direction) ==
    IF Len(s.segments) > 1
    THEN IF direction # Opposite(s.next_direction)
         THEN [s EXCEPT !.next_direction = direction]
         ELSE s
    ELSE [s EXCEPT !.next_direction = direction]

\* set_direction without the length test: a one-segment snake cannot reverse
set_direction_always_rejects(s, direction) ==
    IF direction # Opposite(s.direction)
    THEN [s EXCEPT !.next_direction = direction]
    ELSE s

\* Snake.set_direction
set_direction(s, direction) ==
    IF Len(s.segments) > 1
    THEN IF direction # Opposite(s.direction)
         THEN [s EXCEPT !.next_direction = direction]
         ELSE s
    ELSE [s EXCEPT !.next_direction = direction]

\* move that keeps the tail but leaves the growing flag set
move_keeps_flag(s) ==
    LET dir      == s.next_direction
        new_head == Add(s.segments[1], DirVec(dir))
        inserted == <<new_head>> \o s.segments
    IN  IF ~s.growing
        THEN [s EXCEPT !.direction = dir,
                       !.segments  = SubSeq(inserted, 1, Len(inserted) - 1)]
        ELSE [s EXCEPT !.direction = dir, !.segments = inserted]

\* a game that is not part of the run
Idle == [pc |-> "idle"]

\* Snake.move
move(s) ==
    LET dir      == s.next_direction
        new_head == Add(s.segments[1], DirVec(dir))
        inserted == <<new_head>> \o s.segments
    IN  IF ~s.growing
        THEN [s EXCEPT !.direction = dir,
                       !.segments  = SubSeq(inserted, 1, Len(inserted) - 1)]
        ELSE [s EXCEPT !.direction = dir,
                       !.segments  = inserted,
                       !.growing   = FALSE]

\* update that moves once per move_delay the timer holds
RECURSIVE snake_update_catches_up(_, _)
snake_update_catches_up(s, dt) ==
    LET t == s.move_timer + dt
    IN  IF t >= s.move_delay
        THEN snake_update_catches_up(move([s EXCEPT !.move_timer = 0]), t - s.move_delay)
        ELSE [s EXCEPT !.move_timer = t]

\* Snake.update
snake_update(s, dt) ==
    LET t == s.move_timer + dt
    IN  IF t >= s.move_delay
        THEN move([s EXCEPT !.move_timer = 0])
        ELSE [s EXCEPT !.move_timer = t]

\* Snake.grow
grow(s) == [s EXCEPT !.growing = TRUE]

\* Snake.get_head_position
get_head_position(s) == s.segments[1]

\* Snake.check_collision
check_collision(s, c) == c \in Range(s.segments)

\* Snake.check_wall_collision
check_wall_collision(s) ==
    LET h == get_head_position(s)
    IN  h[1] < 0 \/ h[1] >= PiGridWidth \/ h[2] < 0 \/ h[2] >= PiGridHeight

\* Snake.check_self_collision
check_self_collision(s) ==
    get_head_position(s) \in Range(SubSeq(s.segments, 2, Len(s.segments)))


(***************************************************************************)
(* Pi variant: Game                                                        *)
(*                                                                         *)
(* Besides the fields of Game, the record keeps three bookkeeping fields   *)
(* about the spawners' retry loops: apple_draws (cells drawn by the last   *)
(* spawn_apple call), apple_placed (whether that call placed an apple) and *)
(* obstacle_draws (the most cells drawn for one obstacle by the last       *)
(* spawn_obstacles call), and pc, the position in Game.run.                *)
(***************************************************************************)
\* retry budget of spawn_apple (100 in the source)
PiAppleAttempts == 2

\* retry budget of spawn_obstacles, per obstacle (30 in the source)
PiObstacleAttempts == 2

\* obstacles are added every 5th apple (5 in the source)
PiObstacleEvery == 1

\* at most 6 obstacles are added by one spawn_obstacles call
PiObstacleCap == 6

\* points per apple
PiApplePoints == 10

\* apples eaten in one session (the model's horizon)
PiMaxApples == 2

\* frames slower than the dt cap, in 10 ms
PiOverrun == 1

\* time.time() differences between two frames: one below the cap, the rest
\* at and above it
PiElapsed == {PiDtCap - 1} \cup {PiDtCap + k : k \in 0..PiOverrun}

\* keys and window events delivered by pygame.event.get(); "x" is a key the
\* game does not bind
PiKeys == {"QUIT", "ESCAPE", "r", "SPACE", "UP", "DOWN", "LEFT", "RIGHT", "x"}

\* ParticleSystem.max_particles
PiMaxParticles == 20

\* shortest and longest particle lifetime, 0.3 s and 0.8 s
PiLifeMin == 30

PiLifeMax == 80

\* lifetimes above the shortest that the model draws, in 10 ms
PiLifeSpread == 0

\* random.uniform(0.3, 0.8): the lifetimes the model draws, one per burst
PiLifetimes == {l \in PiLifeMin..PiLifeMax : l <= PiLifeMin + PiLifeSpread}

\* particles of the apple burst and of the death burst
PiAppleBurst == 6

PiDeathBurst == 10

\* ParticleSystem.add_explosion; a particle is its remaining lifetime
add_explosion(particles, count) ==
    IF Len(particles) > PiMaxParticles
    THEN {particles}
    ELSE {particles \o [i \in 1..count |-> life] : life \in PiLifetimes}

\* Particle.update
particle_update(lifetime, dt) == lifetime - dt

\* ParticleSystem.update without the filter on the lifetime
particles_update_keeps_all(particles, dt) ==
    [i \in 1..Len(particles) |-> particle_update(particles[i], dt)]

\* ParticleSystem.update
particles_update(particles, dt) ==
    LET live == SelectSeq(particles, LAMBDA p : p > 0)
    IN  [i \in 1..Len(live) |-> particle_update(live[i], dt)]

\* Game.is_obstacle
is_obstacle(g, c) == c \in Range(g.obstacles)

\* the test of the spawn_apple loop without the obstacle check
apple_cell_free_ignores_obstacles(g, c) == ~check_collision(g.snake, c)

\* the `if` of the spawn_apple loop
apple_cell_free(g, c) == ~check_collision(g.snake, c) /\ ~is_obstacle(g, c)

\* the `while attempts < 100` loop of spawn_apple, from `attempts` on
RECURSIVE spawn_apple_loop(_, _)
spawn_apple_loop(g, attempts) ==
    IF attempts < PiAppleAttempts
    THEN LET free == {c \in PiCells : apple_cell_free(g, c)}
         IN  {[g EXCEPT !.apple = c,
                        !.apple_draws = attempts + 1,
                        !.apple_placed = TRUE] : c \in free}
             \cup (IF free # PiCells
                   THEN spawn_apple_loop(g, attempts + 1)
                   ELSE {})
    ELSE {[g EXCEPT !.apple_draws = attempts, !.apple_placed = FALSE]}

\* Game.spawn_apple
spawn_apple(g) == spawn_apple_loop(g, 0)

\* the `if` of the spawn_obstacles loop
obstacle_cell_free(g, c) ==
    /\ ~check_collision(g.snake, c)
    /\ ~is_obstacle(g, c)
    /\ (g.apple = None \/ c # g.apple)

\* the `while attempts < 30` loop of spawn_obstacles, for one obstacle
RECURSIVE spawn_obstacle_loop(_, _)
spawn_obstacle_loop(g, attempts) ==
    IF attempts < PiObstacleAttempts
    THEN LET free == {c \in PiCells : obstacle_cell_free(g, c)}
         IN  {[g EXCEPT !.obstacles = Append(@, c),
                        !.obstacle_draws = Max(@, attempts + 1)] : c \in free}
             \cup (IF free # PiCells
                   THEN spawn_obstacle_loop(g, attempts + 1)
                   ELSE {})
    ELSE {[g EXCEPT !.obstacle_draws = Max(@, attempts)]}

\* the `for _ in range(obstacle_count)` loop of spawn_obstacles
RECURSIVE spawn_obstacles_for(_, _)
spawn_obstacles_for(g, n) ==
    IF n = 0
    THEN {g}
    ELSE UNION {spawn_obstacles_for(h, n - 1) : h \in spawn_obstacle_loop(g, 0)}

\* Game.spawn_obstacles
spawn_obstacles(g) ==
    spawn_obstacles_for([g EXCEPT !.obstacle_draws = 0],
                        Min(PiObstacleCap, (g.apples_eaten \div PiObstacleEvery) + 1))

\* Game.reset_game
reset_game(g) ==
    spawn_apple([g EXCEPT !.snake = Snake(PiGridWidth \div 2, PiGridHeight \div 2),
                          !.apple = None,
                          !.obstacles = <<>>,
                          !.score = 0,
                          !.apples_eaten = 0,
                          !.game_over = FALSE,
                          !.paused = FALSE,
                          !.obstacle_draws = 0])

\* handle_events with an R key that restarts a running game as well
handle_event_restarts_always(g, key) ==
    IF key = "QUIT"
    THEN {[g EXCEPT !.pc = "quit"]}
    ELSE IF key \in {"ESCAPE", "q"}
    THEN {[g EXCEPT !.pc = "quit"]}
    ELSE IF key = "r"
    THEN reset_game(g)
    ELSE IF key \in {"SPACE", "p"}
    THEN {[g EXCEPT !.paused = ~g.paused]}
    ELSE IF ~g.game_over /\ ~g.paused
    THEN IF key \in {"UP", "w"}
         THEN {[g EXCEPT !.snake = set_direction(g.snake, "UP")]}
         ELSE IF key \in {"DOWN", "s"}
         THEN {[g EXCEPT !.snake = set_direction(g.snake, "DOWN")]}
         ELSE IF key \in {"LEFT", "a"}
         THEN {[g EXCEPT !.snake = set_direction(g.snake, "LEFT")]}
         ELSE IF key \in {"RIGHT", "d"}
         THEN {[g EXCEPT !.snake = set_direction(g.snake, "RIGHT")]}
         ELSE {g}
    ELSE {g}

\* one iteration of the `for event` loop of Game.handle_events
handle_event(g, key) ==
    IF key = "QUIT"
    THEN {[g EXCEPT !.pc = "quit"]}
    ELSE IF key \in {"ESCAPE", "q"}
    THEN {[g EXCEPT !.pc = "quit"]}
    ELSE IF key = "r" /\ g.game_over
    THEN reset_game(g)
    ELSE IF key \in {"SPACE", "p"}
    THEN {[g EXCEPT !.paused = ~g.paused]}
    ELSE IF ~g.game_over /\ ~g.paused
    THEN IF key \in {"UP", "w"}
         THEN {[g EXCEPT !.snake = set_direction(g.snake, "UP")]}
         ELSE IF key \in {"DOWN", "s"}
         THEN {[g EXCEPT !.snake = set_direction(g.snake, "DOWN")]}
         ELSE IF key \in {"LEFT", "a"}
         THEN {[g EXCEPT !.snake = set_direction(g.snake, "LEFT")]}
         ELSE IF key \in {"RIGHT", "d"}
         THEN {[g EXCEPT !.snake = set_direction(g.snake, "RIGHT")]}
         ELSE {g}
    ELSE {g}

\* Game.update, the apple branch: `if self.apple and head_pos == ...`
eat_apple(g) ==
    LET g1     == [g EXCEPT !.snake = grow(g.snake),
                            !.score = @ + PiApplePoints,
                            !.apples_eaten = @ + 1]
        burst  == {[g1 EXCEPT !.particles = ps]
                     : ps \in add_explosion(g1.particles, PiAppleBurst)}
        apples == UNION {spawn_apple(h) : h \in burst}
    IN  IF g1.apples_eaten % PiObstacleEvery = 0
        THEN UNION {
               {[h2 EXCEPT !.snake.move_delay = Max(PiMinDelay, @ - PiDelayStep)]
                  : h2 \in spawn_obstacles(h1)}
               : h1 \in apples}
        ELSE apples

\* the collision part of Game.update without the obstacle test
check_collisions_ignores_obstacles(g, head_pos) ==
    IF \/ check_wall_collision(g.snake)
       \/ check_self_collision(g.snake)
    THEN {[g EXCEPT !.game_over = TRUE, !.particles = ps]
            : ps \in add_explosion(g.particles, PiDeathBurst)}
    ELSE {g}

\* Game.update, the `# Check collisions` part, with the head read before
\* the apple branch
check_collisions(g, head_pos) ==
    IF \/ check_wall_collision(g.snake)
       \/ check_self_collision(g.snake)
       \/ is_obstacle(g, head_pos)
    THEN {[g EXCEPT !.game_over = TRUE, !.particles = ps]
            : ps \in add_explosion(g.particles, PiDeathBurst)}
    ELSE {g}

\* Game.update
update(g, dt) ==
    IF g.game_over \/ g.paused
    THEN {g}
    ELSE LET g1       == [g EXCEPT !.snake = snake_update(g.snake, dt),
                                  !.particles = particles_update(g.particles, dt)]
             head_pos == get_head_position(g1.snake)
             fed      == IF g1.apple # None /\ head_pos = g1.apple
                         THEN eat_apple(g1)
                         ELSE {g1}
         IN  UNION {check_collisions(h, head_pos) : h \in fed}

\* Game.__init__ up to reset_game
PiNew ==
    [snake |-> Snake(0, 0), apple |-> None, obstacles |-> <<>>, score |-> 0,
     apples_eaten |-> 0, game_over |-> FALSE, paused |-> FALSE,
     particles |-> <<>>,
     apple_draws |-> 0, apple_placed |-> FALSE, obstacle_draws |-> 0,
     pc |-> "frame"]

\* Game.__init__
PiInit ==
    /\ real = Idle /\ retro = Idle /\ unit = Idle
    /\ pi \in reset_game(PiNew)

\* Game.run: handle_events reads one more event of the queue
PiEvent ==
    /\ pi.pc = "frame"
    /\ \E key \in PiKeys : pi' \in handle_event(pi, key)
    /\ UNCHANGED <<real, retro, unit>>

\* Game.run: handle_events has returned; update(dt); the `while running` test
PiFrame ==
    /\ pi.pc \in {"frame", "quit"}
    /\ \E elapsed \in PiElapsed :
         \E h \in update(pi, Min(elapsed, PiDtCap)) :
            /\ h.apples_eaten <= PiMaxApples
            /\ pi' = [h EXCEPT !.pc = IF pi.pc = "quit" THEN "exited" ELSE "frame"]
    /\ UNCHANGED <<real, retro, unit>>

PiNext == PiEvent \/ PiFrame


(***************************************************************************)
(* Realistic variant: Snake.  A segment keeps its cell and the cell it had *)
(* before the last move (prev_x, prev_y).                                  *)
(***************************************************************************)
\* Snake.move_delay after construction, 0.15 s
RealMoveDelay == 15

\* the grid of the model (60 x 40 in the source)
RealGridWidth == 2

RealGridHeight == 2

RealGrid == (0..RealGridWidth - 1) \X (0..RealGridHeight - 1)

\* SnakeSegment.__init__
SnakeSegment(x, y) == [x |-> x, y |-> y, prev_x |-> x, prev_y |-> y]

\* Snake.__init__
RealSnake(start_x, start_y) ==
    [segments       |-> <<SnakeSegment(start_x, start_y)>>,
     direction      |-> "RIGHT",
     next_direction |-> "RIGHT",
     growing        |-> FALSE,
     move_timer     |-> 0,
     move_delay     |-> RealMoveDelay]

\* Snake.set_direction
real_set_direction(s, direction) ==
    IF Len(s.segments) > 1
    THEN IF direction # Opposite(s.direction)
         THEN [s EXCEPT !.next_direction = direction]
         ELSE s
    ELSE [s EXCEPT !.next_direction = direction]

\* move that appends the new segment on the cell the tail has moved to
real_move_appends_on_tail(s) ==
    LET dir    == s.next_direction
        n      == Len(s.segments)
        stored == [i \in 1..n |-> [s.segments[i] EXCEPT !.prev_x = s.segments[i].x,
                                                        !.prev_y = s.segments[i].y]]
        moved  == [i \in 1..n |->
                     IF i = 1
                     THEN [stored[1] EXCEPT !.x = @ + DirVec(dir)[1],
                                            !.y = @ + DirVec(dir)[2]]
                     ELSE [stored[i] EXCEPT !.x = stored[i - 1].prev_x,
                                            !.y = stored[i - 1].prev_y]]
    IN  IF s.growing
        THEN [s EXCEPT !.direction = dir,
                       !.segments  = Append(moved, SnakeSegment(moved[n].x, moved[n].y)),
                       !.growing   = FALSE]
        ELSE [s EXCEPT !.direction = dir, !.segments = moved]

\* Snake.move
real_move(s) ==
    LET dir    == s.next_direction
        n      == Len(s.segments)
        stored == [i \in 1..n |-> [s.segments[i] EXCEPT !.prev_x = s.segments[i].x,
                                                        !.prev_y = s.segments[i].y]]
        moved  == [i \in 1..n |->
                     IF i = 1
                     THEN [stored[1] EXCEPT !.x = @ + DirVec(dir)[1],
                                            !.y = @ + DirVec(dir)[2]]
                     ELSE [stored[i] EXCEPT !.x = stored[i - 1].prev_x,
                                            !.y = stored[i - 1].prev_y]]
    IN  IF s.growing
        THEN [s EXCEPT !.direction = dir,
                       !.segments  = Append(moved,
                                            SnakeSegment(moved[n].prev_x, moved[n].prev_y)),
                       !.growing   = FALSE]
        ELSE [s EXCEPT !.direction = dir, !.segments = moved]

\* Snake.update
real_snake_update(s, dt) ==
    LET t == s.move_timer + dt
    IN  IF t >= s.move_delay
        THEN real_move([s EXCEPT !.move_timer = 0])
        ELSE [s EXCEPT !.move_timer = t]

\* Snake.grow
real_grow(s) == [s EXCEPT !.growing = TRUE]

\* Snake.get_head_position
real_get_head_position(s) == <<s.segments[1].x, s.segments[1].y>>

\* the cells of the segments, head first
RealCells(s) == [i \in 1..Len(s.segments) |-> <<s.segments[i].x, s.segments[i].y>>]

\* Snake.check_collision
real_check_collision(s, c) == c \in Range(RealCells(s))

\* Snake.check_wall_collision
real_check_wall_collision(s) ==
    LET h == real_get_head_position(s)
    IN  h[1] < 0 \/ h[1] >= RealGridWidth \/ h[2] < 0 \/ h[2] >= RealGridHeight

\* Snake.check_self_collision
real_check_self_collision(s) ==
    real_get_head_position(s) \in Range(Tail(RealCells(s)))

(***************************************************************************)
(* Realistic variant: ParticleSystem and Game.  Apple.update and the       *)
(* smooth positions of the segments only feed the drawing and are left     *)
(* out.  spawn_apple draws cells until one is free: with a free cell on    *)
(* the board it returns with the apple on one of them, with none it never  *)
(* returns, which the model records as pc = "hung".                        *)
(***************************************************************************)
\* attempts of spawn_obstacles per obstacle (50 in the source)
RealObstacleAttempts == 2

\* apples between two spawn_obstacles calls (5 in the source)
RealObstacleEvery == 2

\* the cap on the obstacles of one spawn_obstacles call
RealObstacleCap == 10

\* score of one apple
RealApplePoints == 10

\* lower limit of move_delay, 0.08 s, and its step, 0.01 s
RealMinDelay == 8

RealDelayStep == 1

\* apples eaten in one run of the model
RealMaxApples == 3

\* time between two frames at 60 FPS, rounded up to the time unit
RealFrameTime == 2

\* how much longer than RealFrameTime a slow frame can take
RealOverrun == 4

\* the elapsed times a frame can measure; Game.run does not cap dt
RealElapsed == {RealFrameTime, RealFrameTime + RealOverrun}

\* the keys handle_events tells apart ("x" is any other key)
RealKeys == {"QUIT", "ESCAPE", "r", "SPACE", "UP", "DOWN", "LEFT", "RIGHT", "x"}

\* particle lifetimes, uniform(0.5, 1.5)
RealLifeMin == 50

RealLifeMax == 150

\* how far above RealLifeMin the lifetimes of the model go
RealLifeSpread == 0

RealLifetimes == {l \in RealLifeMin..RealLifeMax : l <= RealLifeMin + RealLifeSpread}

\* particles of an eaten apple and of one collision
RealAppleBurst == 20

RealDeathBurst == 30

\* ParticleSystem.add_explosion
real_add_explosion(particles, count) ==
    {particles \o [i \in 1..count |-> life] : life \in RealLifetimes}

\* Particle.update
real_particle_update(lifetime, dt) == lifetime - dt

\* ParticleSystem.update
real_particles_update(particles, dt) ==
    LET live == SelectSeq(particles, LAMBDA p : p > 0)
    IN  [i \in 1..Len(live) |-> real_particle_update(live[i], dt)]

\* Game.is_obstacle
real_is_obstacle(g, c) == c \in Range(g.obstacles)

\* Game.spawn_apple
real_spawn_apple(g) ==
    LET free == {c \in RealGrid : ~real_check_collision(g.snake, c) /\ ~real_is_obstacle(g, c)}
    IN  IF free = {}
        THEN {[g EXCEPT !.pc = "hung"]}
        ELSE {[g EXCEPT !.apple = c] : c \in free}

\* the `if` of the spawn_obstacles loop
real_obstacle_cell_free(g, c) ==
    /\ ~real_check_collision(g.snake, c)
    /\ ~real_is_obstacle(g, c)
    /\ c # g.apple

\* the attempts loop of spawn_obstacles for one obstacle
RECURSIVE real_spawn_obstacle_loop(_, _)
real_spawn_obstacle_loop(g, attempts) ==
    IF attempts < RealObstacleAttempts
    THEN LET free == {c \in RealGrid : real_obstacle_cell_free(g, c)}
         IN  {[g EXCEPT !.obstacles = Append(@, c)] : c \in free}
             \cup (IF free # RealGrid
                   THEN real_spawn_obstacle_loop(g, attempts + 1)
                   ELSE {})
    ELSE {g}

\* the `for` loop of spawn_obstacles
RECURSIVE real_spawn_obstacles_for(_, _)
real_spawn_obstacles_for(g, n) ==
    IF n = 0
    THEN {g}
    ELSE UNION {real_spawn_obstacles_for(h, n - 1) : h \in real_spawn_obstacle_loop(g, 0)}

\* Game.spawn_obstacles
real_spawn_obstacles(g) ==
    real_spawn_obstacles_for(
        g, Min(RealObstacleCap, (g.apples_eaten \div RealObstacleEvery) * 2 + 2))

\* Game.reset_game
real_reset_game(g) ==
    real_spawn_apple([g EXCEPT !.snake        = RealSnake(RealGridWidth \div 2,
                                                          RealGridHeight \div 2),
                               !.apple        = None,
                               !.obstacles    = <<>>,
                               !.score        = 0,
                               !.apples_eaten = 0,
                               !.game_over    = FALSE,
                               !.paused       = FALSE])

\* Game.handle_events, one event of the queue
real_handle_event(g, key) ==
    IF key \in {"QUIT", "ESCAPE"}
    THEN {[g EXCEPT !.pc = "quit"]}
    ELSE IF key = "r" /\ g.game_over
    THEN real_reset_game(g)
    ELSE IF key = "SPACE"
    THEN {[g EXCEPT !.paused = ~g.paused]}
    ELSE IF ~g.game_over /\ ~g.paused /\ key \in Direction
    THEN {[g EXCEPT !.snake = real_set_direction(g.snake, key)]}
    ELSE {g}

\* Game.update, the apple branch
real_eat_apple(g) ==
    LET g1     == [g EXCEPT !.snake        = real_grow(g.snake),
                            !.score        = @ + RealApplePoints,
                            !.apples_eaten = @ + 1]
        burst  == {[g1 EXCEPT !.particles = ps] :
                     ps \in real_add_explosion(g1.particles, RealAppleBurst)}
        apples == UNION {real_spawn_apple(h) : h \in burst}
        more(h) == IF h.pc = "hung" \/ h.apples_eaten % RealObstacleEvery # 0
                   THEN {h}
                   ELSE {[h2 EXCEPT !.snake.move_delay = Max(RealMinDelay, @ - RealDelayStep)] :
                           h2 \in real_spawn_obstacles(h)}
    IN  UNION {more(h) : h \in apples}

\* Game.update, one of the three collision checks
real_collision(g, hit) ==
    IF hit
    THEN {[g EXCEPT !.game_over = TRUE, !.particles = ps] :
            ps \in real_add_explosion(g.particles, RealDeathBurst)}
    ELSE {g}

\* Game.update, the collision checks
real_check_collisions(g, head_pos) ==
    IF g.pc = "hung"
    THEN {g}
    ELSE LET wall == real_collision(g, real_check_wall_collision(g.snake))
             self == UNION {real_collision(h, real_check_self_collision(h.snake)) : h \in wall}
         IN  UNION {real_collision(h, real_is_obstacle(h, head_pos)) : h \in self}

\* Game.update
real_update(g, dt) ==
    IF g.game_over \/ g.paused
    THEN {g}
    ELSE LET g1       == [g EXCEPT !.snake     = real_snake_update(g.snake, dt),
                                   !.particles = real_particles_update(g.particles, dt)]
             head_pos == real_get_head_position(g1.snake)
             fed      == IF g1.apple # None /\ head_pos = g1.apple
                         THEN real_eat_apple(g1)
                         ELSE {g1}
         IN  UNION {real_check_collisions(h, head_pos) : h \in fed}

\* the fields of a Game before reset_game has run
RealNew ==
    [snake        |-> RealSnake(0, 0),
     apple        |-> None,
     obstacles    |-> <<>>,
     score        |-> 0,
     apples_eaten |-> 0,
     game_over    |-> FALSE,
     paused       |-> FALSE,
     particles    |-> <<>>,
     pc           |-> "frame"]

\* Game.__init__
RealInit ==
    /\ pi = Idle /\ retro = Idle /\ unit = Idle
    /\ real \in real_reset_game(RealNew)

\* Game.run: handle_events reads one more event of the queue
RealEvent ==
    /\ real.pc = "frame"
    /\ \E key \in RealKeys : real' \in real_handle_event(real, key)
    /\ UNCHANGED <<pi, retro, unit>>

\* Game.run: the events of the frame are read, update runs with the
\* measured dt and the loop condition is tested
RealFrame ==
    /\ real.pc \in {"frame", "quit"}
    /\ \E elapsed \in RealElapsed : \E h \in real_update(real, elapsed) :
         /\ h.apples_eaten <= RealMaxApples
         /\ real' = [h EXCEPT !.pc = IF h.pc = "hung" THEN "hung"
                                     ELSE IF real.pc = "quit" THEN "exited"
                                     ELSE "frame"]
    /\ UNCHANGED <<pi, retro, unit>>

RealNext == RealEvent \/ RealFrame

(***************************************************************************)
(* Retro variant: SnakeGame.  The constructor calls reset_game, whose      *)
(* spawn_food reads self.obstacles three lines before reset_game assigns   *)
(* it; the session modelled here starts from a game object on which the    *)
(* attribute exists and is empty, as on every later reset_game, where it   *)
(* still holds the obstacles of the session before.  screen_shake, the     *)
(* colours and the particle positions only feed the drawing and are left   *)
(* out, as is PowerUp.duration, which nothing reads.                       *)
(***************************************************************************)
\* the grid of the model (40 x 30 in the source)
GRID_WIDTH == 7

GRID_HEIGHT == 7

RetroGrid == (0..GRID_WIDTH - 1) \X (0..GRID_HEIGHT - 1)

GameState == {"MENU", "PLAYING", "PAUSED", "GAME_OVER"}

PowerUpType == {"SPEED_BOOST", "SLOW_DOWN", "GROW", "SHRINK", "INVINCIBILITY", "DOUBLE_POINTS"}

\* how far above its lower limit a random.randint of an obstacle generator goes
RetroRandSpread == 0

\* random.randint(a, b)
randint(a, b) == {v \in a..b : v <= a + RetroRandSpread}

\* how far from the head the cells drawn by spawn_food and spawn_power_up lie
RetroDrawReach == 1

Abs(n) == IF n < 0 THEN -n ELSE n

Dist(a, b) == Abs(a[1] - b[1]) + Abs(a[2] - b[2])

\* the cells of the grid within n steps of cell h
Within(h, n) ==
    {c \in ((h[1] - n)..(h[1] + n)) \X ((h[2] - n)..(h[2] + n)) :
       c \in RetroGrid /\ Dist(c, h) <= n}

\* the frames of an effect, effect_duration (300 in the source)
RetroEffectDuration == 2

\* the score of one level (100 in the source)
RetroLevelStep == 25

\* shapes of generate_obstacles at level 0 (3 in the source) and their cap
RetroObstacleBase == 1

RetroObstacleMax == 8

\* power-ups on the board above which spawn_power_up returns at once
RetroMaxPowerUps == 3

\* the initial speed, its limits and steps
RetroSpeed == 8

RetroBoostStep == 3

RetroMaxSpeed == 20

RetroSlowStep == 2

RetroMinSpeed == 3

RetroMaxBaseSpeed == 15

\* points of a food and of a power-up
RetroFoodPoints == 10

RetroPowerUpPoints == 5

\* cells added by GROW, cells removed by SHRINK and the length it needs
RetroGrowCells == 3

RetroShrinkCells == 2

RetroShrinkFrom == 3

\* particle lifetimes in frames (60 and 120 in the source)
RetroParticleLife == 2

RetroDeathLife == 3

\* particles of a food, a power-up, a level-up and a death
RetroFoodParticles == 8

RetroPowerUpParticles == 12

RetroLevelParticles == 20

RetroDeathParticles == 30

\* ticks of one session, sessions of one run, power-ups spawned in a
\* session, keys held at once
RetroMaxTime == 2

RetroMaxSessions == 1

RetroMaxSpawns == 1

RetroMaxHeld == 2

\* a high score left in the file by an earlier run
RetroStoredHigh == 15

Obstacle(x, y, width, height) == [x |-> x, y |-> y, width |-> width, height |-> height]

PowerUp(x, y, type) == [x |-> x, y |-> y, type |-> type]

\* SnakeGame.create_line_obstacle
create_line_obstacle ==
    UNION {{<<Obstacle(x, y, length, 1)>> :
              x \in randint(2, GRID_WIDTH - length - 2), y \in randint(2, GRID_HEIGHT - 2)} :
            length \in randint(3, 8)}
    \cup
    UNION {{<<Obstacle(x, y, 1, length)>> :
              x \in randint(2, GRID_WIDTH - 2), y \in randint(2, GRID_HEIGHT - length - 2)} :
            length \in randint(3, 6)}

\* SnakeGame.create_box_obstacle
create_box_obstacle ==
    UNION {{<<Obstacle(x, y, size, size)>> :
              x \in randint(2, GRID_WIDTH - size - 2), y \in randint(2, GRID_HEIGHT - size - 2)} :
            size \in randint(2, 4)}

\* SnakeGame.create_cross_obstacle
create_cross_obstacle ==
    {<<Obstacle(x, y - 1, 1, 3), Obstacle(x - 1, y, 3, 1)>> :
       x \in randint(3, GRID_WIDTH - 4), y \in randint(3, GRID_HEIGHT - 4)}

\* SnakeGame.create_corner_obstacle
create_corner_obstacle ==
    {<<Obstacle(x, y, 3, 1), Obstacle(x, y, 1, 3)>> :
       x \in randint(2, GRID_WIDTH - 4), y \in randint(2, GRID_HEIGHT - 4)}

\* SnakeGame.create_random_obstacle: the obstacles one call appends
create_random_obstacle ==
    create_line_obstacle \cup create_box_obstacle
        \cup create_cross_obstacle \cup create_corner_obstacle

\* the `for` loop of generate_obstacles
RECURSIVE create_obstacles(_, _)
create_obstacles(obstacles, n) ==
    IF n = 0
    THEN {obstacles}
    ELSE UNION {create_obstacles(obstacles \o shape, n - 1) : shape \in create_random_obstacle}

\* SnakeGame.generate_obstacles
generate_obstacles(g) ==
    {[g EXCEPT !.obstacles = obs] :
       obs \in create_obstacles(<<>>, Min(RetroObstacleBase + g.level \div 2, RetroObstacleMax))}

\* SnakeGame.is_obstacle_at
is_obstacle_at(g, c) ==
    \E i \in 1..Len(g.obstacles) :
      LET obstacle == g.obstacles[i]
      IN  /\ obstacle.x <= c[1] /\ c[1] < obstacle.x + obstacle.width
          /\ obstacle.y <= c[2] /\ c[2] < obstacle.y + obstacle.height

\* the decimal digits, in order
Digits == <<"0", "1", "2", "3", "4", "5", "6", "7", "8", "9">>

DigitValue(ch) == (CHOOSE k \in 1..10 : Digits[k] = ch) - 1

IsDigit(ch) == \E k \in 1..10 : Digits[k] = ch

IsSpace(ch) == ch \in {" ", "\n"}

\* str.strip: the text without its leading and trailing whitespace
RECURSIVE strip(_)
strip(text) ==
    IF text = <<>> THEN text
    ELSE IF IsSpace(text[1]) THEN strip(Tail(text))
    ELSE IF IsSpace(text[Len(text)]) THEN strip(SubSeq(text, 1, Len(text) - 1))
    ELSE text

\* the value of a sequence of digits
RECURSIVE digits_value(_)
digits_value(text) ==
    IF text = <<>> THEN 0
    ELSE 10 * digits_value(SubSeq(text, 1, Len(text) - 1)) + DigitValue(text[Len(text)])

\* int(text) for a stripped text: an optional sign and one or more digits,
\* ValueError for anything else
int(text) ==
    LET signed == text # <<>> /\ text[1] \in {"-", "+"}
        body   == IF signed THEN Tail(text) ELSE text
    IN  IF body # <<>> /\ \A i \in 1..Len(body) : IsDigit(body[i])
        THEN [raised |-> FALSE,
              value  |-> IF signed /\ text[1] = "-"
                         THEN 0 - digits_value(body) ELSE digits_value(body)]
        ELSE [raised |-> TRUE, value |-> 0]

\* str(n) for an integer n
RECURSIVE str(_)
str(n) ==
    IF n < 0 THEN <<"-">> \o str(0 - n)
    ELSE IF n < 10 THEN <<Digits[n + 1]>>
    ELSE str(n \div 10) \o <<Digits[(n % 10) + 1]>>

\* a high-score file with the given text, and no file
TextFile(text) == [kind |-> "text", text |-> text]

NoFile == [kind |-> "missing", text |-> <<>>]

\* SnakeGame.load_high_score, the body of the try: open raises when there
\* is no file, int raises on a text that is no integer
read_high_score(file) ==
    IF file.kind = "missing"
    THEN [raised |-> TRUE, value |-> 0]
    ELSE int(strip(file.text))

\* load_high_score with a parser that takes the digits it finds and skips
\* every other character
load_high_score_lenient(file) ==
    IF file.kind = "missing"
    THEN 0
    ELSE digits_value(SelectSeq(file.text, IsDigit))

\* SnakeGame.load_high_score
load_high_score(file) ==
    IF read_high_score(file).raised THEN 0 ELSE read_high_score(file).value

\* SnakeGame.save_high_score: the file holds the score, or open failed and
\* it is as before, or the write failed after open had emptied it
save_high_score(g) ==
    {[g EXCEPT !.file = TextFile(str(g.high_score))],
     g,
     [g EXCEPT !.file = TextFile(<<>>)]}

\* the draws of a spawner loop that the model follows, out of the cells
\* that pass its test (not in taken, not in an obstacle): those within
\* RetroDrawReach of the head h, or the nearest ones when none is that
\* near; none when no cell passes
RECURSIVE NearWithin(_, _, _, _)
NearWithin(h, taken, obstacles, n) ==
    LET near == {c \in Within(h, n) :
                   c \notin taken /\ ~is_obstacle_at([obstacles |-> obstacles], c)}
    IN  IF near # {} \/ n > GRID_WIDTH + GRID_HEIGHT + 2
        THEN near
        ELSE NearWithin(h, taken, obstacles, n + 1)

\* SnakeGame.spawn_food: the cells it can return, none if it never returns
spawn_food(g) ==
    NearWithin(g.snake[1], Range(g.snake), g.obstacles, RetroDrawReach)

\* SnakeGame.spawn_power_up; types are the types that random.choice yields
\* in the runs that are followed
spawn_power_up(g, types) ==
    IF Len(g.power_ups) >= RetroMaxPowerUps
    THEN {g}
    ELSE UNION {IF free = {}
                THEN {[g EXCEPT !.pc = "hung"]}
                ELSE {[g EXCEPT !.power_ups = Append(@, PowerUp(c[1], c[2], type))] :
                        c \in free, type \in types} :
                  free \in {NearWithin(g.snake[1], Range(g.snake) \cup {g.food},
                                       g.obstacles, RetroDrawReach)}}

\* the particles a create_..._particles call appends
create_particles(particles, count, lifetime) ==
    particles \o [i \in 1..count |-> lifetime]

\* SnakeGame.reset_game
retro_reset_game(g) ==
    LET g1 == [g EXCEPT !.snake = <<<<GRID_WIDTH \div 2, GRID_HEIGHT \div 2>>>>,
                        !.direction = "RIGHT"]
        g2(food) == [g1 EXCEPT !.food          = food,
                               !.score         = 0,
                               !.high_score    = load_high_score(g.file),
                               !.speed         = RetroSpeed,
                               !.base_speed    = RetroSpeed,
                               !.power_ups     = <<>>,
                               !.obstacles     = <<>>,
                               !.effect_timers = [e \in {} |-> 0],
                               !.invincible    = FALSE,
                               !.double_points = FALSE,
                               !.game_time     = 0,
                               !.level         = 1,
                               !.spawns        = 0]
    IN  IF spawn_food(g1) = {}
        THEN {[g1 EXCEPT !.pc = "hung"]}
        ELSE UNION {generate_obstacles(g2(food)) : food \in spawn_food(g1)}

\* handle_input with a GAME_OVER screen that Space leaves for a new game
\* without passing through the menu
handle_input_restarts(g, keys) ==
    CASE g.state = "PLAYING" ->
           {IF "UP" \in keys /\ g.direction # "DOWN"
            THEN [g EXCEPT !.direction = "UP"]
            ELSE IF "DOWN" \in keys /\ g.direction # "UP"
            THEN [g EXCEPT !.direction = "DOWN"]
            ELSE IF "LEFT" \in keys /\ g.direction # "RIGHT"
            THEN [g EXCEPT !.direction = "LEFT"]
            ELSE IF "RIGHT" \in keys /\ g.direction # "LEFT"
            THEN [g EXCEPT !.direction = "RIGHT"]
            ELSE IF "SPACE" \in keys
            THEN [g EXCEPT !.state = "PAUSED"]
            ELSE g}
      [] g.state = "PAUSED" ->
           {IF "SPACE" \in keys THEN [g EXCEPT !.state = "PLAYING"] ELSE g}
      [] g.state = "MENU" ->
           IF "SPACE" \in keys
           THEN {IF h.pc = "hung" THEN h
                 ELSE [h EXCEPT !.state = "PLAYING", !.sessions = @ + 1] :
                   h \in retro_reset_game(g)}
           ELSE {g}
      [] g.state = "GAME_OVER" ->
           {IF "SPACE" \in keys THEN [g EXCEPT !.state = "PLAYING"] ELSE g}

\* SnakeGame.handle_input; keys are the keys that get_pressed reports held
handle_input(g, keys) ==
    CASE g.state = "PLAYING" ->
           {IF "UP" \in keys /\ g.direction # "DOWN"
            THEN [g EXCEPT !.direction = "UP"]
            ELSE IF "DOWN" \in keys /\ g.direction # "UP"
            THEN [g EXCEPT !.direction = "DOWN"]
            ELSE IF "LEFT" \in keys /\ g.direction # "RIGHT"
            THEN [g EXCEPT !.direction = "LEFT"]
            ELSE IF "RIGHT" \in keys /\ g.direction # "LEFT"
            THEN [g EXCEPT !.direction = "RIGHT"]
            ELSE IF "SPACE" \in keys
            THEN [g EXCEPT !.state = "PAUSED"]
            ELSE g}
      [] g.state = "PAUSED" ->
           {IF "SPACE" \in keys THEN [g EXCEPT !.state = "PLAYING"] ELSE g}
      [] g.state = "MENU" ->
           IF "SPACE" \in keys
           THEN {IF h.pc = "hung" THEN h
                 ELSE [h EXCEPT !.state = "PLAYING", !.sessions = @ + 1] :
                   h \in retro_reset_game(g)}
           ELSE {g}
      [] g.state = "GAME_OVER" ->
           {IF "SPACE" \in keys THEN [g EXCEPT !.state = "MENU"] ELSE g}

\* SnakeGame.check_collision
retro_check_collision(g, pos) ==
    \/ pos[1] < 0 \/ pos[1] >= GRID_WIDTH \/ pos[2] < 0 \/ pos[2] >= GRID_HEIGHT
    \/ pos \in Range(g.snake)
    \/ is_obstacle_at(g, pos)

\* the timer of an effect is started
start_effect(g, effect) ==
    [e \in DOMAIN g.effect_timers \cup {effect} |->
       IF e = effect THEN RetroEffectDuration ELSE g.effect_timers[e]]

\* apply_power_up with a SHRINK that also shortens a snake of three cells
apply_power_up_shrinks_three(g, power_up) ==
    LET n  == Len(g.snake)
        g1 == CASE power_up.type = "SPEED_BOOST" ->
                     [g EXCEPT !.speed = Min(@ + RetroBoostStep, RetroMaxSpeed),
                               !.effect_timers = start_effect(g, "speed_boost")]
                [] power_up.type = "SLOW_DOWN" ->
                     [g EXCEPT !.speed = Max(@ - RetroSlowStep, RetroMinSpeed),
                               !.effect_timers = start_effect(g, "slow_down")]
                [] power_up.type = "GROW" ->
                     [g EXCEPT !.snake = @ \o [i \in 1..RetroGrowCells |-> g.snake[n]]]
                [] power_up.type = "SHRINK" ->
                     IF n >= RetroShrinkFrom
                     THEN [g EXCEPT !.snake = SubSeq(@, 1, n - Min(RetroShrinkCells, n - 1))]
                     ELSE g
                [] power_up.type = "INVINCIBILITY" ->
                     [g EXCEPT !.invincible = TRUE,
                               !.effect_timers = start_effect(g, "invincibility")]
                [] power_up.type = "DOUBLE_POINTS" ->
                     [g EXCEPT !.double_points = TRUE,
                               !.effect_timers = start_effect(g, "double_points")]
    IN  [g1 EXCEPT !.score = @ + RetroPowerUpPoints]

\* SnakeGame.apply_power_up
apply_power_up(g, power_up) ==
    LET n  == Len(g.snake)
        g1 == CASE power_up.type = "SPEED_BOOST" ->
                     [g EXCEPT !.speed = Min(@ + RetroBoostStep, RetroMaxSpeed),
                               !.effect_timers = start_effect(g, "speed_boost")]
                [] power_up.type = "SLOW_DOWN" ->
                     [g EXCEPT !.speed = Max(@ - RetroSlowStep, RetroMinSpeed),
                               !.effect_timers = start_effect(g, "slow_down")]
                [] power_up.type = "GROW" ->
                     [g EXCEPT !.snake = @ \o [i \in 1..RetroGrowCells |-> g.snake[n]]]
                [] power_up.type = "SHRINK" ->
                     IF n > RetroShrinkFrom
                     THEN [g EXCEPT !.snake = SubSeq(@, 1, n - Min(RetroShrinkCells, n - 1))]
                     ELSE g
                [] power_up.type = "INVINCIBILITY" ->
                     [g EXCEPT !.invincible = TRUE,
                               !.effect_timers = start_effect(g, "invincibility")]
                [] power_up.type = "DOUBLE_POINTS" ->
                     [g EXCEPT !.double_points = TRUE,
                               !.effect_timers = start_effect(g, "double_points")]
    IN  [g1 EXCEPT !.score = @ + RetroPowerUpPoints]

\* update_effects ending an effect one tick early
update_effects_clears_early(g) ==
    LET timers  == g.effect_timers
        expired == {e \in DOMAIN timers : timers[e] <= 1}
    IN  [g EXCEPT !.effect_timers = [e \in DOMAIN timers \ expired |-> timers[e] - 1],
                  !.speed         = IF expired \cap {"speed_boost", "slow_down"} # {}
                                    THEN g.base_speed ELSE @,
                  !.invincible    = IF "invincibility" \in expired THEN FALSE ELSE @,
                  !.double_points = IF "double_points" \in expired THEN FALSE ELSE @]

\* update_effects dropping an expired speed timer without restoring speed
update_effects_keeps_speed(g) ==
    LET timers  == g.effect_timers
        expired == {e \in DOMAIN timers : timers[e] <= 0}
    IN  [g EXCEPT !.effect_timers = [e \in DOMAIN timers \ expired |-> timers[e] - 1],
                  !.invincible    = IF "invincibility" \in expired THEN FALSE ELSE @,
                  !.double_points = IF "double_points" \in expired THEN FALSE ELSE @]

\* SnakeGame.update_effects
update_effects(g) ==
    LET timers  == g.effect_timers
        expired == {e \in DOMAIN timers : timers[e] <= 0}
    IN  [g EXCEPT !.effect_timers = [e \in DOMAIN timers \ expired |-> timers[e] - 1],
                  !.speed         = IF expired \cap {"speed_boost", "slow_down"} # {}
                                    THEN g.base_speed ELSE @,
                  !.invincible    = IF "invincibility" \in expired THEN FALSE ELSE @,
                  !.double_points = IF "double_points" \in expired THEN FALSE ELSE @]

\* level_up raising the base speed by two
level_up_two_steps(g) ==
    LET base == Min(g.base_speed + 2, RetroMaxBaseSpeed)
    IN  {[h EXCEPT !.particles = create_particles(@, RetroLevelParticles, RetroParticleLife)] :
           h \in generate_obstacles([g EXCEPT !.level      = @ + 1,
                                              !.base_speed = base,
                                              !.speed      = base])}

\* SnakeGame.level_up
level_up(g) ==
    LET base == Min(g.base_speed + 1, RetroMaxBaseSpeed)
    IN  {[h EXCEPT !.particles = create_particles(@, RetroLevelParticles, RetroParticleLife)] :
           h \in generate_obstacles([g EXCEPT !.level      = @ + 1,
                                              !.base_speed = base,
                                              !.speed      = base])}

\* game_over storing the score as the high score whatever the old one was
game_over_stores_every_score(g) ==
    LET g1 == [g EXCEPT !.state = "GAME_OVER"]
    IN  {[h EXCEPT !.particles = create_particles(@, RetroDeathParticles, RetroDeathLife)] :
           h \in save_high_score([g1 EXCEPT !.high_score = g1.score])}

\* SnakeGame.game_over
game_over(g) ==
    LET g1    == [g EXCEPT !.state = "GAME_OVER"]
        saved == IF g1.score > g1.high_score
                 THEN save_high_score([g1 EXCEPT !.high_score = g1.score])
                 ELSE {g1}
    IN  {[h EXCEPT !.particles = create_particles(@, RetroDeathParticles, RetroDeathLife)] :
           h \in saved}

\* SnakeGame.update_game, the food branch
eat_food(g) ==
    LET points == IF g.double_points THEN RetroFoodPoints * 2 ELSE RetroFoodPoints
        fed(g1, foods) ==
            IF foods = {}
            THEN {[g1 EXCEPT !.pc = "hung"]}
            ELSE UNION {IF h.score \div RetroLevelStep > h.level - 1
                        THEN level_up(h)
                        ELSE {h} :
                          h \in {[g1 EXCEPT !.food = food,
                                            !.particles =
                                               create_particles(@, RetroFoodParticles,
                                                                RetroParticleLife)] :
                                   food \in foods}}
    IN  UNION {UNION {fed(g1, foods) : foods \in {spawn_food(g1)}} :
                 g1 \in {[g EXCEPT !.score = @ + points]}}

\* SnakeGame.update_game, the loop over a copy of the power-ups
RECURSIVE collect_power_ups(_, _, _)
collect_power_ups(g, copy, new_head) ==
    IF copy = <<>>
    THEN g
    ELSE LET power_up == Head(copy)
             at       == CHOOSE i \in 1..Len(g.power_ups) :
                           /\ g.power_ups[i] = power_up
                           /\ \A k \in 1..(i - 1) : g.power_ups[k] # power_up
             g1       == apply_power_up(g, power_up)
             g2       == [g1 EXCEPT !.power_ups  = SubSeq(@, 1, at - 1)
                                                     \o SubSeq(@, at + 1, Len(@)),
                                    !.particles  = create_particles(@, RetroPowerUpParticles,
                                                                    RetroParticleLife)]
         IN  IF new_head = <<power_up.x, power_up.y>>
             THEN collect_power_ups(g2, Tail(copy), new_head)
             ELSE collect_power_ups(g, Tail(copy), new_head)

\* the move of update_game with a collision check that invincibility
\* does not switch off
move_snake_mortal(g) ==
    LET new_head == Add(g.snake[1], DirVec(g.direction))
        inserted == <<new_head>> \o g.snake
        fed      == IF new_head = g.food
                    THEN UNION {eat_food(g1) : g1 \in {[g EXCEPT !.snake = inserted]}}
                    ELSE {[g EXCEPT !.snake = SubSeq(inserted, 1, Len(inserted) - 1)]}
    IN  IF retro_check_collision(g, new_head)
        THEN game_over(g)
        ELSE {IF h.pc = "hung" THEN h ELSE collect_power_ups(h, h.power_ups, new_head) : h \in fed}

\* SnakeGame.update_game from "Move snake" on
move_snake(g) ==
    LET new_head == Add(g.snake[1], DirVec(g.direction))
        inserted == <<new_head>> \o g.snake
        fed      == IF new_head = g.food
                    THEN UNION {eat_food(g1) : g1 \in {[g EXCEPT !.snake = inserted]}}
                    ELSE {[g EXCEPT !.snake = SubSeq(inserted, 1, Len(inserted) - 1)]}
    IN  IF retro_check_collision(g, new_head) /\ ~g.invincible
        THEN game_over(g)
        ELSE {IF h.pc = "hung" THEN h ELSE collect_power_ups(h, h.power_ups, new_head) :
                h \in fed}

\* SnakeGame.update_game in state PLAYING.  random.randint(1, 200) == 1 and
\* the clock decide whether a power-up is spawned and which power-ups are
\* older than 10 s: the oldest ones, any number of those that were on the
\* board when the tick began
play_tick(g, types) ==
    LET old     == Len(g.power_ups)
        rolled(g1) ==
            {g1} \cup (IF g1.spawns < RetroMaxSpawns
                       THEN {[h EXCEPT !.spawns = @ + 1] : h \in spawn_power_up(g1, types)}
                       ELSE {})
        expired(h) ==
            IF h.pc = "hung"
            THEN {h}
            ELSE UNION {move_snake(h2) :
                          h2 \in {[h EXCEPT !.power_ups = SubSeq(@, k + 1, Len(@))] :
                                    k \in 0..old}}
    IN  UNION {UNION {expired(h) : h \in rolled(g1)} :
                 g1 \in {update_effects([g EXCEPT !.game_time = @ + 1])}}

\* update_game without the test of the session state
update_game_in_every_state(g, types) == play_tick(g, types)

\* SnakeGame.update_game
update_game(g, types) ==
    IF g.state # "PLAYING"
    THEN {g}
    ELSE play_tick(g, types)

\* SnakeGame.update_particles
update_particles(particles) ==
    LET ticked == [i \in 1..Len(particles) |-> particles[i] - 1]
    IN  SelectSeq(ticked, LAMBDA lifetime : lifetime > 0)

\* the keys handle_input looks at
RetroKeys == {"UP", "DOWN", "LEFT", "RIGHT", "SPACE"}

\* the events of the queue that run tells apart
RetroEvents == {"QUIT", "ESCAPE", "SPACE"}

\* the contents of the high-score file when the program starts
RetroFiles ==
    {NoFile, TextFile(str(RetroStoredHigh))}

\* the fields of a SnakeGame before reset_game has run
RetroNew(file) ==
    [snake         |-> <<>>,
     direction     |-> "RIGHT",
     food          |-> None,
     score         |-> 0,
     high_score    |-> 0,
     speed         |-> RetroSpeed,
     base_speed    |-> RetroSpeed,
     power_ups     |-> <<>>,
     obstacles     |-> <<>>,
     effect_timers |-> [e \in {} |-> 0],
     invincible    |-> FALSE,
     double_points |-> FALSE,
     game_time     |-> 0,
     level         |-> 1,
     state         |-> "MENU",
     particles     |-> <<>>,
     running       |-> TRUE,
     file          |-> file,
     sessions      |-> 0,
     spawns        |-> 0,
     pc            |-> "events"]

\* SnakeGame.__init__
RetroInit ==
    /\ pi = Idle /\ real = Idle /\ unit = Idle
    /\ \E file \in RetroFiles : retro \in retro_reset_game(RetroNew(file))

\* SnakeGame.run, the `for` loop over the event queue: one event
key_event(g, event) ==
    IF event = "QUIT"
    THEN [g EXCEPT !.running = FALSE]
    ELSE IF event = "ESCAPE"
    THEN IF g.state = "PLAYING"
         THEN [g EXCEPT !.state = "PAUSED"]
         ELSE IF g.state = "PAUSED"
         THEN [g EXCEPT !.state = "MENU"]
         ELSE [g EXCEPT !.running = FALSE]
    ELSE g

RetroEvent ==
    /\ retro.pc = "events"
    /\ \E event \in RetroEvents : retro' = key_event(retro, event)
    /\ UNCHANGED <<pi, real, unit>>

\* SnakeGame.run: the queue is empty, handle_input runs
RetroHandleInput ==
    /\ retro.pc = "events"
    /\ \E keys \in SUBSET RetroKeys :
         /\ Cardinality(keys) <= RetroMaxHeld
         /\ \E h \in handle_input(retro, keys) :
              /\ h.sessions <= RetroMaxSessions
              /\ retro' = IF h.pc = "hung" THEN h ELSE [h EXCEPT !.pc = "update"]
    /\ UNCHANGED <<pi, real, unit>>

\* SnakeGame.run: update_game runs
RetroUpdateGame ==
    /\ retro.pc = "update"
    /\ retro.state = "PLAYING" => retro.game_time < RetroMaxTime
    /\ \E h \in update_game(retro, PowerUpType) :
         retro' = IF h.pc = "hung" THEN h ELSE [h EXCEPT !.pc = "particles"]
    /\ UNCHANGED <<pi, real, unit>>

\* SnakeGame.run: update_particles runs and the loop condition is tested
RetroUpdateParticles ==
    /\ retro.pc = "particles"
    /\ retro' = [retro EXCEPT !.particles = update_particles(@),
                              !.pc = IF retro.running THEN "events" ELSE "exited"]
    /\ UNCHANGED <<pi, real, unit>>

RetroNext == RetroEvent \/ RetroHandleInput \/ RetroUpdateGame \/ RetroUpdateParticles

(***************************************************************************)
(* Retro variant, longer sessions: the frames of run in which the event    *)
(* queue is empty, at most one key is held and the game is never paused,   *)
(* and every obstacle drawn is a horizontal line.  Three families of       *)
(* sessions are followed: long ones with little food and short ones in     *)
(* which the snake eats at every tick, both with INVINCIBILITY as the only *)
(* power-up drawn, and sessions without food in which every power-up drawn *)
(* has a timed effect.                                                     *)
(***************************************************************************)
\* ticks of a long session and the score it is followed to
LongMaxTime == 6

LongMaxScore == 15

\* ticks of a short session and the score it is followed to
FeastMaxTime == 4

FeastMaxScore == 35

\* the key sets of these frames
PlayKeys == {{}} \cup {{k} : k \in RetroKeys}

\* one iteration of the loop of SnakeGame.run with an empty event queue,
\* after handle_input has run
play_frame(g, types) ==
    {IF h.pc = "hung" THEN h ELSE [h EXCEPT !.particles = update_particles(@)] :
       h \in update_game(g, types)}

\* the runs that are followed
PlayRuns(h, max_score) ==
    /\ h.state # "PAUSED"
    /\ h.sessions <= RetroMaxSessions
    /\ h.score <= max_score
    /\ \A i \in 1..Len(h.obstacles) : h.obstacles[i].height = 1

\* SnakeGame.run: one iteration of the loop with an empty event queue
PlayFrame(max_time, max_score, types) ==
    /\ retro.pc = "events"
    /\ \E h1 \in UNION {handle_input(retro, keys) : keys \in PlayKeys} :
         /\ h1.pc # "hung"
         /\ h1.state = "PLAYING" => h1.game_time < max_time
         /\ \E h \in play_frame(h1, types) :
              PlayRuns(h, max_score) /\ retro' = h
    /\ UNCHANGED <<pi, real, unit>>

LongFrame == PlayFrame(LongMaxTime, LongMaxScore, {"INVINCIBILITY"})

FeastFrame == PlayFrame(FeastMaxTime, FeastMaxScore, {"INVINCIBILITY"})

\* the power-up types whose effect runs on a timer
TimedTypes == {"SPEED_BOOST", "SLOW_DOWN", "INVINCIBILITY", "DOUBLE_POINTS"}

\* sessions in which every power-up drawn has a timed effect and no food is
\* eaten: their ticks and the score they reach
EffectMaxTime == 5

EffectMaxScore == 5

EffectFrame == PlayFrame(EffectMaxTime, EffectMaxScore, TimedTypes)

(***************************************************************************)
(* The two Snake classes driven through set_direction, grow and move with  *)
(* the same calls: unit.a is the Pi Snake, unit.b the realistic one.       *)
(***************************************************************************)
\* longest snake the harness grows
UnitMaxLen == 3

\* how far from its start cell the harness lets the head go
UnitReach == 2

UnitInit ==
    /\ pi = Idle /\ real = Idle /\ retro = Idle
    /\ unit = [a |-> Snake(0, 0), b |-> RealSnake(0, 0)]

UnitSetDirection ==
    /\ \E d \in Direction :
         unit' = [a |-> set_direction(unit.a, d), b |-> real_set_direction(unit.b, d)]
    /\ UNCHANGED <<pi, real, retro>>

UnitGrow ==
    /\ Len(unit.a.segments) < UnitMaxLen
    /\ unit' = [a |-> grow(unit.a), b |-> real_grow(unit.b)]
    /\ UNCHANGED <<pi, real, retro>>

UnitMove ==
    /\ LET h == get_head_position(move(unit.a))
       IN  h[1] \in -UnitReach..UnitReach /\ h[2] \in -UnitReach..UnitReach
    /\ unit' = [a |-> move(unit.a), b |-> real_move(unit.b)]
    /\ UNCHANGED <<pi, real, retro>>

UnitNext == UnitSetDirection \/ UnitGrow \/ UnitMove

(***************************************************************************)
(* The high-score file of the retro variant, read by load_high_score and   *)
(* written by save_high_score, over short texts.                           *)
(***************************************************************************)
\* longest text of a file at program start
FileMaxLen == 3

\* the characters of such a text
FileChars == {"1", "5", "-", " ", "x"}

\* the scores that are saved
FileScores == {5, 10, 105}

ScoreFiles ==
    {NoFile} \cup {TextFile(text) : text \in UNION {[1..n -> FileChars] : n \in 0..FileMaxLen}}

FileInit ==
    /\ pi = Idle /\ real = Idle /\ retro = Idle
    /\ unit \in {[pc |-> "file", file |-> file, high_score |-> 0, loaded |-> FALSE] :
                   file \in ScoreFiles}

\* SnakeGame.reset_game, `self.high_score = self.load_high_score()`
FileLoad ==
    /\ unit.pc = "file"
    /\ unit' = [unit EXCEPT !.high_score = load_high_score(unit.file), !.loaded = TRUE]
    /\ UNCHANGED <<pi, real, retro>>

\* SnakeGame.game_over, the branch that stores a new high score
FileSave ==
    /\ unit.pc = "file"
    /\ unit.loaded
    /\ \E score \in FileScores :
         /\ score > unit.high_score
         /\ \E h \in save_high_score([unit EXCEPT !.high_score = score]) : unit' = h
    /\ UNCHANGED <<pi, real, retro>>

FileNext == FileLoad \/ FileSave

(***************************************************************************)
(* The entry points: the `if __name__ == "__main__"` block of each         *)
(* program, around a constructor and a main loop that return, take a quit  *)
(* event or raise.                                                         *)
(***************************************************************************)
\* the programs: Pi, retro, ecosystem, realistic
MainVariants == {"pi", "retro", "ecosystem", "realistic"}

\* the exception classes told apart
Raised == {"Exception", "ImportError", "KeyboardInterrupt"}

\* iterations of the main loop that are followed
MainMaxFrames == 30

\* `except cls` catches an exception of class e; ImportError is a subclass
\* of Exception, KeyboardInterrupt and SystemExit are not
Catches(cls, e) == e = cls \/ (cls = "Exception" /\ e = "ImportError")

\* the interpreter ends on an exception nothing caught: a traceback and
\* exit code 1
uncaught(m, e) ==
    [m EXCEPT !.pc = "exited", !.printed = TRUE, !.exit_code = 1]

\* sys.exit(code) reaching the top of the program
sys_exit(m, code) == [m EXCEPT !.pc = "exited", !.exit_code = code]

\* an exception of class e leaves the constructor or run: the except
\* clauses of the entry point the program is in
main_except(m, e) ==
    IF ~m.guarded
    THEN {uncaught(m, e)}
    ELSE CASE m.variant = "pi" ->
                IF Catches("Exception", e)
                THEN {sys_exit([m EXCEPT !.printed = TRUE], 0)}
                ELSE {uncaught(m, e)}
           [] m.variant = "retro" ->
                IF Catches("KeyboardInterrupt", e)
                THEN {sys_exit([m EXCEPT !.printed = TRUE], 0)}
                ELSE IF Catches("Exception", e)
                THEN {sys_exit([m EXCEPT !.printed = TRUE], 1)}
                ELSE {uncaught(m, e)}
           [] m.variant = "ecosystem" ->
                IF Catches("ImportError", e)
                THEN {[m EXCEPT !.printed = TRUE, !.guarded = FALSE,
                                !.pc = "construct", !.frames = 0],
                      uncaught([m EXCEPT !.printed = TRUE, !.guarded = FALSE],
                               "Exception")}
                ELSE {uncaught(m, e)}
           [] m.variant = "realistic" -> {uncaught(m, e)}

\* the first thing that ended a constructor or a main loop
first_cause(m, cause) == IF m.cause = "none" THEN [m EXCEPT !.cause = cause] ELSE m

MainInit ==
    /\ pi = Idle /\ real = Idle /\ retro = Idle
    /\ unit \in {[pc |-> "construct", variant |-> variant, frames |-> 0,
                  guarded |-> variant # "realistic", printed |-> FALSE,
                  exit_code |-> 0, cause |-> "none"] : variant \in MainVariants}

\* `game = Game()` returns
MainConstruct ==
    /\ unit.pc = "construct"
    /\ unit' = [unit EXCEPT !.pc = "run"]
    /\ UNCHANGED <<pi, real, retro>>

\* one iteration of the loop of run
MainFrame ==
    /\ unit.pc = "run"
    /\ unit.frames < MainMaxFrames
    /\ unit' = [unit EXCEPT !.frames = @ + 1]
    /\ UNCHANGED <<pi, real, retro>>

\* a quit event: run calls pygame.quit() and sys.exit()
MainQuit ==
    /\ unit.pc = "run"
    /\ unit' = sys_exit(first_cause(unit, "quit"), 0)
    /\ UNCHANGED <<pi, real, retro>>

\* an exception leaves the constructor or run
MainRaise ==
    /\ unit.pc \in {"construct", "run"}
    /\ \E e \in Raised : unit' \in main_except(first_cause(unit, e), e)
    /\ UNCHANGED <<pi, real, retro>>

MainNext == MainConstruct \/ MainFrame \/ MainQuit \/ MainRaise

(***************************************************************************)
(* The particle lists of the three games, each driven by its emitter and   *)
(* its update routine alone.                                               *)
(***************************************************************************)
\* particles of one burst and of a list in these runs
PartBurst == 2

PartMaxLen == 3

PartVariants == {"pi", "real", "retro"}

\* the bursts the emitter of a variant appends
part_emit(variant, particles, count) ==
    CASE variant = "pi"    -> add_explosion(particles, count)
      [] variant = "real"  -> real_add_explosion(particles, count)
      [] variant = "retro" -> {create_particles(particles, count, lifetime) :
                                 lifetime \in {RetroParticleLife, RetroDeathLife}}

\* the dt values the update routine of a variant is called with; the retro
\* routine takes none and counts frames
part_elapsed(variant) ==
    CASE variant = "pi"    -> {Min(elapsed, PiDtCap) : elapsed \in PiElapsed}
      [] variant = "real"  -> RealElapsed
      [] variant = "retro" -> {1}

\* the update routine of a variant
part_update(variant, particles, dt) ==
    CASE variant = "pi"    -> particles_update(particles, dt)
      [] variant = "real"  -> real_particles_update(particles, dt)
      [] variant = "retro" -> update_particles(particles)

PartInit ==
    /\ pi = Idle /\ real = Idle /\ retro = Idle
    /\ unit \in {[pc |-> "particles", variant |-> variant, particles |-> <<>>,
                  updates |-> 0] : variant \in PartVariants}

PartEmit ==
    /\ unit.pc = "particles"
    /\ \E count \in 1..PartBurst :
         /\ Len(unit.particles) + count <= PartMaxLen
         /\ \E ps \in part_emit(unit.variant, unit.particles, count) :
              unit' = [unit EXCEPT !.particles = ps, !.updates = 0]
    /\ UNCHANGED <<pi, real, retro>>

PartUpdate ==
    /\ unit.pc = "particles"
    /\ unit.particles # <<>>
    /\ \E dt \in part_elapsed(unit.variant) :
         unit' = [unit EXCEPT !.particles = part_update(unit.variant, @, dt),
                              !.updates = 1]
    /\ UNCHANGED <<pi, real, retro>>

PartNext == PartEmit \/ PartUpdate

(***************************************************************************)
(* Retro variant: the constructor.  An object is its set of assigned       *)
(* attributes; reading an attribute that is not assigned raises            *)
(* AttributeError.  spawn_food is followed draw by draw.                   *)
(***************************************************************************)
\* draws of spawn_food that are followed
CtorMaxDraws == 3

\* the attributes __init__ assigns before it calls reset_game
CtorAttrs == {"screen", "clock", "font_small", "font_medium", "font_large", "font_title"}

\* the attributes reset_game assigns after the food
ResetAttrs ==
    {"score", "high_score", "speed", "base_speed", "power_ups", "obstacles",
     "active_effects", "effect_timers", "invincible", "double_points",
     "game_time", "level"}

\* whether reading self.<name> finds the attribute
has_attr(o, name) == name \in o.attrs

\* SnakeGame.spawn_food, one iteration of its loop with the cell c drawn;
\* on return the rest of reset_game and of __init__ follows
ctor_spawn_food(o, c) ==
    LET o1 == [o EXCEPT !.draws = @ + 1, !.cell = c]
    IN  IF c \in Range(o.snake)
        THEN o1
        ELSE IF ~has_attr(o, "obstacles")
        THEN [o1 EXCEPT !.pc = "raised", !.raised = "AttributeError"]
        ELSE IF is_obstacle_at(o, c)
        THEN o1
        ELSE [o1 EXCEPT !.pc     = "constructed",
                        !.attrs  = @ \cup {"food"} \cup ResetAttrs
                                     \cup {"state", "particles", "screen_shake",
                                           "background_pattern"},
                        !.food   = c,
                        !.score  = 0,
                        !.level  = 1,
                        !.state  = "MENU"]

\* SnakeGame.__init__ up to the call of reset_game
CtorInit ==
    /\ pi = Idle /\ real = Idle /\ retro = Idle
    /\ unit = [pc |-> "reset_game", attrs |-> CtorAttrs, snake |-> <<>>,
               obstacles |-> <<>>, food |-> <<0, 0>>, cell |-> <<0, 0>>,
               draws |-> 0, raised |-> "none", score |-> 0, level |-> 0,
               state |-> "none"]

\* reset_game up to the call of spawn_food
CtorResetGame ==
    /\ unit.pc = "reset_game"
    /\ unit' = [unit EXCEPT !.pc    = "spawn_food",
                            !.attrs = @ \cup {"snake", "direction"},
                            !.snake = <<<<GRID_WIDTH \div 2, GRID_HEIGHT \div 2>>>>]
    /\ UNCHANGED <<pi, real, retro>>

\* one draw of spawn_food
CtorSpawnFood ==
    /\ unit.pc = "spawn_food"
    /\ unit.draws < CtorMaxDraws
    /\ \E c \in RetroGrid : unit' = ctor_spawn_food(unit, c)
    /\ UNCHANGED <<pi, real, retro>>

CtorNext == CtorResetGame \/ CtorSpawnFood

(***************************************************************************)
(* Snake.update of the two cadence-based variants, called with short and   *)
(* long frame times between set_direction and grow calls: unit.a is the    *)
(* Pi Snake, unit.b the realistic one.                                     *)
(***************************************************************************)
\* the frame times of the calls, in 10 ms: short ones and one longer than
\* two move delays
CadDts == {5, 10, 45}

\* calls of update in one run and the longest snake
CadMaxUpdates == 4

CadMaxLen == 2

CadInit ==
    /\ pi = Idle /\ real = Idle /\ retro = Idle
    /\ unit = [pc |-> "cadence", a |-> Snake(0, 0), b |-> RealSnake(0, 0),
               updates |-> 0, last |-> 0]

\* Snake.update(dt) of both classes
CadUpdate ==
    /\ unit.pc = "cadence"
    /\ unit.updates < CadMaxUpdates
    /\ \E dt \in CadDts :
         unit' = [unit EXCEPT !.a = snake_update(@, dt),
                              !.b = real_snake_update(@, dt),
                              !.updates = @ + 1,
                              !.last = dt]
    /\ UNCHANGED <<pi, real, retro>>

\* Snake.set_direction of both classes
CadSetDirection ==
    /\ unit.pc = "cadence"
    /\ \E d \in Direction :
         unit' = [unit EXCEPT !.a = set_direction(@, d), !.b = real_set_direction(@, d)]
    /\ UNCHANGED <<pi, real, retro>>

\* Snake.grow of both classes
CadGrow ==
    /\ unit.pc = "cadence"
    /\ Len(unit.a.segments) < CadMaxLen /\ Len(unit.b.segments) < CadMaxLen
    /\ unit' = [unit EXCEPT !.a = grow(@), !.b = real_grow(@)]
    /\ UNCHANGED <<pi, real, retro>>

CadNext == CadUpdate \/ CadSetDirection \/ CadGrow

(***************************************************************************)
(* The ecosystem program at the head of src/realistic_snake.py             *)
(* (RealisticEcosystem).  unit is the simulation: energy and hunger in     *)
(* halves of a point, speed in tenths, dt in tens of normalised frames.    *)
(* Positions, angles and the camera have no part in the reset or the score *)
(* and are left out; which prey starve or are reached in an update, which  *)
(* the code derives from them, is an input of the update.                  *)
(***************************************************************************)
\* segments and prey created by reset, and the prey count under which
\* update spawns one more
EcoSegments == 15

EcoPrey == 20

EcoMinPrey == 15

\* max_speed 3 and the 0.1 gained by a frame with SPACE held
EcoMaxSpeed == 30

EcoSpeedStep == 1

\* the 0.5 energy a frame with SPACE held costs
EcoSpaceCost == 1

\* energy after reset and its upper limit, 100
EcoFull == 200

\* a caught prey: 10 points, 30 energy, 20 less hunger
EcoPreyPoints == 10

EcoMealEnergy == 60

EcoMealHunger == 40

\* metabolism: hunger 0.1 and energy 0.05 for each normalised frame
EcoHungerRate == 2

EcoEnergyRate == 1

\* hunger above 100 resets the simulation
EcoHungerLimit == 200

\* clock.get_time() / 16.67 of a frame, in tens: frames of 167 ms
EcoDts == {1}

\* prey caught in one life and prey that starve in one update
EcoMaxCatches == 2

EcoMaxDeaths == 0

\* RealisticEcosystem.spawn_prey, called n times
RECURSIVE eco_spawn_prey(_, _)
eco_spawn_prey(e, n) ==
    IF n = 0 THEN e ELSE eco_spawn_prey([e EXCEPT !.prey = @ + 1], n - 1)

\* RealisticEcosystem.reset with a score that survives the reset
eco_reset_keeps_score(e) ==
    eco_spawn_prey([e EXCEPT !.snake  = [i \in 1..EcoSegments |-> i - 1],
                             !.speed  = 0,
                             !.hunger = 0,
                             !.energy = EcoFull,
                             !.prey   = 0],
                   EcoPrey)

\* RealisticEcosystem.reset; a segment is its index
eco_reset(e) ==
    eco_spawn_prey([e EXCEPT !.snake  = [i \in 1..EcoSegments |-> i - 1],
                             !.speed  = 0,
                             !.hunger = 0,
                             !.energy = EcoFull,
                             !.prey   = 0,
                             !.score  = 0],
                   EcoPrey)

\* RealisticEcosystem.handle_input: the speed control
eco_handle_input(e, space) ==
    IF space
    THEN [e EXCEPT !.speed  = Min(EcoMaxSpeed, @ + EcoSpeedStep),
                   !.energy = @ - EcoSpaceCost]
    ELSE [e EXCEPT !.speed = (@ * 95) \div 100]

\* RealisticEcosystem.grow
eco_grow(e) == [e EXCEPT !.snake = Append(@, Len(@))]

\* the hunting loop of update for the n prey within reach of the head
RECURSIVE eco_hunt(_, _)
eco_hunt(e, n) ==
    IF n = 0
    THEN e
    ELSE LET g == eco_grow([e EXCEPT !.prey = @ - 1])
         IN  eco_hunt([g EXCEPT !.score  = @ + EcoPreyPoints,
                                !.energy = Min(EcoFull, @ + EcoMealEnergy),
                                !.hunger = Max(0, @ - EcoMealHunger)],
                      n - 1)

\* update up to the metabolism step: died prey are removed, caught ones are
\* eaten, one prey is spawned, hunger rises and energy falls
eco_metabolism(e, dt, died, caught) ==
    LET h == eco_hunt([e EXCEPT !.prey = @ - died], caught)
        s == IF h.prey < EcoMinPrey THEN eco_spawn_prey(h, 1) ELSE h
    IN  [s EXCEPT !.hunger = @ + EcoHungerRate * dt,
                  !.energy = @ - EcoEnergyRate * dt]

\* RealisticEcosystem.update
eco_update(e, dt, died, caught) ==
    LET m == eco_metabolism(e, dt, died, caught)
    IN  IF m.hunger > EcoHungerLimit \/ m.energy <= 0 THEN eco_reset(m) ELSE m

\* the inputs of one frame: SPACE held or not, the frame time, the prey that
\* starve and the prey the head reaches
EcoInputs(e) ==
    {i \in [space : BOOLEAN, dt : EcoDts, died : 0..EcoMaxDeaths, caught : 0..EcoMaxCatches] :
        /\ i.died + i.caught <= e.prey
        /\ Len(e.snake) + i.caught <= EcoSegments + EcoMaxCatches}

\* handle_input and update of one frame
eco_frame(e, i) == eco_update(eco_handle_input(e, i.space), i.dt, i.died, i.caught)

\* RealisticEcosystem.__init__
EcoInit ==
    /\ pi = Idle /\ real = Idle /\ retro = Idle
    /\ unit = eco_reset([pc |-> "eco", snake |-> <<>>, speed |-> 0, hunger |-> 0,
                         energy |-> 0, prey |-> 0, score |-> 0])

\* one iteration of run without a QUIT event
EcoFrame ==
    /\ unit.pc = "eco"
    /\ \E i \in EcoInputs(unit) : unit' = eco_frame(unit, i)
    /\ UNCHANGED <<pi, real, retro>>

\* run reads a QUIT event: pygame.quit() and sys.exit()
EcoQuit ==
    /\ unit.pc = "eco"
    /\ unit' = [unit EXCEPT !.pc = "exited"]
    /\ UNCHANGED <<pi, real, retro>>

EcoNext == EcoFrame \/ EcoQuit

(***************************************************************************)
(* The obstacle generators of the retro game on the grid of the source,    *)
(* 40 by 30 cells, with every value random.randint can return.  unit is a  *)
(* game reduced to its level and its obstacle list; an obstacle keeps the  *)
(* pattern name the generator gives it.                                    *)
(***************************************************************************)
\* GRID_WIDTH and GRID_HEIGHT of the source: 800 // 20 and 600 // 20
FullGridWidth == 40

FullGridHeight == 30

\* shapes generate_obstacles creates before the level counts
FullObstacleBase == 3

\* the levels of the games the generators are called on, and the highest
ObsMaxLevel == 12

ObsLevels == {1, 2, 3, ObsMaxLevel}

\* Obstacle, without its colour
PatternObstacle(x, y, width, height, pattern) ==
    [x |-> x, y |-> y, width |-> width, height |-> height, pattern |-> pattern]

\* the obstacle lists of the session before: none, or one line
ObsPrevious == {<<>>, <<PatternObstacle(2, 2, 3, 1, "line")>>}

\* SnakeGame.create_line_obstacle: the obstacles one call appends
line_obstacles ==
    UNION {{<<PatternObstacle(x, y, length, 1, "line")>> :
              x \in 2..(FullGridWidth - length - 2), y \in 2..(FullGridHeight - 2)} :
            length \in 3..8}
    \cup
    UNION {{<<PatternObstacle(x, y, 1, length, "line")>> :
              x \in 2..(FullGridWidth - 2), y \in 2..(FullGridHeight - length - 2)} :
            length \in 3..6}

\* SnakeGame.create_box_obstacle
box_obstacles ==
    UNION {{<<PatternObstacle(x, y, size, size, "box")>> :
              x \in 2..(FullGridWidth - size - 2), y \in 2..(FullGridHeight - size - 2)} :
            size \in 2..4}

\* SnakeGame.create_cross_obstacle
cross_obstacles ==
    {<<PatternObstacle(x, y - 1, 1, 3, "cross"), PatternObstacle(x - 1, y, 3, 1, "cross")>> :
       x \in 3..(FullGridWidth - 4), y \in 3..(FullGridHeight - 4)}

\* SnakeGame.create_corner_obstacle
corner_obstacles ==
    {<<PatternObstacle(x, y, 3, 1, "corner"), PatternObstacle(x, y, 1, 3, "corner")>> :
       x \in 2..(FullGridWidth - 4), y \in 2..(FullGridHeight - 4)}

\* SnakeGame.create_random_obstacle
random_obstacles ==
    line_obstacles \cup box_obstacles \cup cross_obstacles \cup corner_obstacles

\* the `for` loop of generate_obstacles when every call of
\* create_random_obstacle appends the same shape
RECURSIVE append_shapes(_, _, _)
append_shapes(obstacles, shape, n) ==
    IF n = 0 THEN obstacles ELSE append_shapes(obstacles \o shape, shape, n - 1)

\* generate_obstacles without the clear() of the list
full_generate_obstacles_keeps_previous(g, shape) ==
    [g EXCEPT !.obstacles =
        append_shapes(@, shape, Min(FullObstacleBase + g.level \div 2, RetroObstacleMax))]

\* SnakeGame.generate_obstacles
full_generate_obstacles(g, shape) ==
    [g EXCEPT !.obstacles =
        append_shapes(<<>>, shape, Min(FullObstacleBase + g.level \div 2, RetroObstacleMax))]

\* a game at some level with the obstacles of the session before
ObsInit ==
    /\ pi = Idle /\ real = Idle /\ retro = Idle
    /\ \E level \in ObsLevels, previous \in ObsPrevious :
         unit = [pc |-> "obstacles", level |-> level, previous |-> previous,
                 obstacles |-> previous]

\* one call of create_random_obstacle
ObsCreate ==
    /\ unit.pc = "obstacles"
    /\ \E shape \in random_obstacles :
         unit' = [unit EXCEPT !.pc = "created", !.obstacles = @ \o shape]
    /\ UNCHANGED <<pi, real, retro>>

\* one call of generate_obstacles
ObsGenerate ==
    /\ unit.pc = "obstacles"
    /\ \E shape \in random_obstacles :
         unit' = [full_generate_obstacles(unit, shape) EXCEPT !.pc = "generated"]
    /\ UNCHANGED <<pi, real, retro>>

ObsNext == ObsCreate \/ ObsGenerate

(***************************************************************************)
(* Specifications                                                          *)
(***************************************************************************)
SpecUnit == UnitInit /\ [][UnitNext]_vars

SpecPi == PiInit /\ [][PiNext]_vars

SpecFile == FileInit /\ [][FileNext]_vars

SpecMain == MainInit /\ [][MainNext]_vars

SpecParticles == PartInit /\ [][PartNext]_vars

SpecObstacles == ObsInit /\ [][ObsNext]_vars

SpecEco == EcoInit /\ [][EcoNext]_vars

SpecCadence == CadInit /\ [][CadNext]_vars

SpecCtor == CtorInit /\ [][CtorNext]_vars

SpecReal == RealInit /\ [][RealNext]_vars

SpecRetro == RetroInit /\ [][RetroNext]_vars

SpecRetroLong == RetroInit /\ [][LongFrame]_vars

SpecRetroFeast == RetroInit /\ [][FeastFrame]_vars

SpecRetroEffects == RetroInit /\ [][EffectFrame]_vars


(***************************************************************************)
(* Claims                                                                  *)
(***************************************************************************)

\* C1: in the retro game, in every reachable state in which the session
\* state is PLAYING and the invincible flag is false, every cell of the
\* snake lies inside the grid.
C1_SnakeInsideGrid ==
    retro.state = "PLAYING" /\ ~retro.invincible
      => \A i \in 1..Len(retro.snake) : retro.snake[i] \in RetroGrid

\* C2: set_direction(d) of both cadence-based Snake classes leaves
\* next_direction and direction unchanged when the snake has more than one
\* segment and d is the opposite of the current direction, and sets
\* next_direction to d in every other case.
C2_SetDirection ==
    \A d \in Direction :
      LET a  == unit.a
          ra == set_direction(a, d)
          b  == unit.b
          rb == real_set_direction(b, d)
      IN  /\ IF Len(a.segments) > 1 /\ d = Opposite(a.direction)
             THEN ra.next_direction = a.next_direction /\ ra.direction = a.direction
             ELSE ra.next_direction = d
          /\ IF Len(b.segments) > 1 /\ d = Opposite(b.direction)
             THEN rb.next_direction = b.next_direction /\ rb.direction = b.direction
             ELSE rb.next_direction = d

\* C2 witness: both snakes have more than one segment and hold a pending
\* direction, set by set_direction, that differs from the current one.
C2_Witness ==
    /\ Len(unit.a.segments) > 1
    /\ unit.a.next_direction # unit.a.direction
    /\ Len(unit.b.segments) > 1
    /\ unit.b.next_direction # unit.b.direction

\* C3: in the Pi game, whenever the growing flag is clear the snake has
\* exactly 1 + apples_eaten segments.
C3_GrowthMatchesApples ==
    ~pi.snake.growing => Len(pi.snake.segments) = 1 + pi.apples_eaten

\* the cells of the power-ups of a list
PowerUpCells(power_ups) == {<<power_ups[i].x, power_ups[i].y>> : i \in 1..Len(power_ups)}

\* C4: in the retro game, the cell that spawn_food chooses during a tick is
\* not a snake cell and not the cell of a power-up that is on the board.
C4_FoodAvoidsItems ==
    [][(/\ retro.state = "PLAYING"
        /\ retro'.state = "PLAYING"
        /\ retro'.pc # "hung"
        /\ retro'.game_time = retro.game_time + 1
        /\ retro'.snake[1] = retro.food)
       => /\ retro'.food \notin Range(retro'.snake)
          /\ retro'.food \notin PowerUpCells(retro'.power_ups)]_vars

\* C5: every call of a food or power-up spawner returns after a bounded
\* number of attempts, also on a board without a free cell; here for
\* Game.spawn_apple of the realistic variant: no frame is left inside the
\* spawn_apple loop for ever.
C5_SpawnerReturns == real.pc # "hung"

\* the cells that are new at the end of the obstacle list after a step
PiNewObstacles == SubSeq(pi'.obstacles, Len(pi.obstacles) + 1, Len(pi'.obstacles))

\* C6: spawn_apple draws at most PiAppleAttempts cells and spawn_obstacles at
\* most PiObstacleAttempts per obstacle; an apple that is placed is on a cell
\* that is neither snake nor obstacle, an obstacle that is placed is on a
\* cell that is neither snake, nor obstacle, nor the apple; a spawn_apple
\* call that places nothing has used its whole budget and leaves the apple
\* as it was.
C6_SpawnWithinBudget ==
    /\ [](/\ pi.apple_draws <= PiAppleAttempts
          /\ pi.obstacle_draws <= PiObstacleAttempts
          /\ pi.apple_placed =>
               /\ pi.apple \in PiCells
               /\ pi.apple \notin Range(pi.snake.segments)
               /\ pi.apple \notin Range(pi.obstacles))
    /\ [][pi'.apples_eaten = pi.apples_eaten + 1 =>
            /\ pi'.apple_draws >= 1
            /\ ~pi'.apple_placed =>
                 pi'.apple_draws = PiAppleAttempts /\ pi'.apple = pi.apple
            /\ \A i \in 1..Len(PiNewObstacles) :
                 /\ PiNewObstacles[i] \in PiCells
                 /\ PiNewObstacles[i] \notin Range(pi'.snake.segments)
                 /\ PiNewObstacles[i] # pi'.apple
                 /\ PiNewObstacles[i] \notin
                      Range(SubSeq(pi'.obstacles, 1, Len(pi.obstacles) + i - 1))
            /\ Len(PiNewObstacles) > 0 => pi'.obstacle_draws >= 1]_vars

\* C6 witness: an apple has been eaten, the spawn_apple call that followed
\* used its whole budget without placing an apple, and a later
\* spawn_obstacles call placed an obstacle.
C6_Witness ==
    /\ pi.apples_eaten >= 1
    /\ pi.apple_draws = PiAppleAttempts
    /\ ~pi.apple_placed
    /\ Len(pi.obstacles) >= 1
    /\ pi.obstacle_draws = PiObstacleAttempts

\* C7: one move of the grid snake puts the new head at the old head plus
\* the vector of the committed direction and every other segment where its
\* predecessor was; without growth the length is unchanged, with the
\* growing flag set the old tail cell is kept, the length grows by one and
\* the flag is cleared.
C7_MoveShifts ==
    LET s == unit.a
        m == move(s)
        n == Len(s.segments)
    IN  /\ m.direction = s.next_direction
        /\ m.segments[1] = Add(s.segments[1], DirVec(m.direction))
        /\ \A i \in 2..Len(m.segments) : m.segments[i] = s.segments[i - 1]
        /\ ~m.growing
        /\ Len(m.segments) = IF s.growing THEN n + 1 ELSE n
        /\ s.growing => m.segments[n + 1] = s.segments[n]

\* C7 witness: the snake has moved with the growing flag set: it has two
\* segments, the flag is clear again, and the head has left the start cell.
C7_Witness ==
    /\ Len(unit.a.segments) = 2
    /\ ~unit.a.growing
    /\ unit.a.segments[1] # <<0, 0>>
    /\ unit.a.segments[2] = <<0, 0>>


\* C8: in the retro game, a tick whose new head is the food cell adds
\* exactly 10 to the score, or exactly 20 while double_points is set,
\* lengthens the snake by exactly one cell and puts the new food on a cell
\* that is not a snake cell; after every tick the food is not on the snake.
C8_FoodTick ==
    /\ [](retro.state = "PLAYING" /\ retro.pc # "hung"
            => retro.food \notin Range(retro.snake))
    /\ [][(/\ retro.state = "PLAYING"
           /\ retro'.state = "PLAYING"
           /\ retro'.pc # "hung"
           /\ retro'.game_time = retro.game_time + 1
           /\ retro'.snake[1] = retro.food)
          => /\ retro'.score = retro.score
                                 + (IF update_effects(retro).double_points
                                    THEN 2 * RetroFoodPoints
                                    ELSE RetroFoodPoints)
             /\ Len(retro'.snake) = Len(retro.snake) + 1
             /\ retro'.food \notin Range(retro'.snake)]_vars

\* the changes of the session state that the specification lists
ListedTransitions ==
    {<<"MENU", "PLAYING">>, <<"PLAYING", "PAUSED">>, <<"PAUSED", "PLAYING">>,
     <<"PLAYING", "GAME_OVER">>, <<"GAME_OVER", "MENU">>}

\* C9 as stated: the session state of the retro game only ever changes
\* along MENU->PLAYING, PLAYING->PAUSED, PAUSED->PLAYING, PLAYING->GAME_OVER
\* and GAME_OVER->MENU.
C9_ListedTransitionsOnly ==
    [][retro'.state # retro.state
         => <<retro.state, retro'.state>> \in ListedTransitions]_vars

\* C9 amended: the session state of the retro game only ever changes along
\* the five listed transitions or along PAUSED->MENU, which the Escape key
\* takes.
C9_Transitions ==
    [][retro'.state # retro.state
         => <<retro.state, retro'.state>>
              \in ListedTransitions \cup {<<"PAUSED", "MENU">>}]_vars

\* C9 witness: the menu is shown over a game that was left while it was
\* under way: ticks have run and the next one would not end the game.
C9_Witness ==
    /\ retro.state = "MENU"
    /\ retro.game_time >= 1
    /\ ~retro_check_collision(retro, Add(retro.snake[1], DirVec(retro.direction)))

\* the fields of the game that C10 is about
FrozenFields(g) ==
    <<g.snake, g.direction, g.food, g.power_ups, g.obstacles, g.score, g.level,
      g.speed, g.game_time, g.effect_timers>>

\* C10: in the retro game, update_game called in a state other than PLAYING
\* leaves the snake, the direction, the food, the power-ups, the obstacles,
\* the score, the level, the speed, game_time and the effect timers
\* unchanged; the snake and the obstacles of a GAME_OVER state are those of
\* the tick that ended the game.
C10_UpdateOnlyWhilePlaying ==
    /\ [](retro.state # "PLAYING" /\ retro.pc # "hung"
            => \A h \in update_game(retro, PowerUpType) :
                 FrozenFields(h) = FrozenFields(retro))
    /\ [][retro.pc = "update" /\ retro.state # "PLAYING"
            => FrozenFields(retro') = FrozenFields(retro)]_vars
    /\ [][retro'.state = "GAME_OVER"
            => retro'.snake = retro.snake /\ retro'.obstacles = retro.obstacles]_vars

\* C10 witness: update_game has just run in a GAME_OVER state, one frame or
\* more after the tick that ended the game.
C10_Witness ==
    /\ retro.state = "GAME_OVER"
    /\ retro.pc = "particles"
    /\ retro.particles # <<>>
    /\ retro.particles[Len(retro.particles)] < RetroDeathLife

\* C11: in the retro game, particles are ticked only while the session
\* state is PLAYING: a frame that starts and ends in MENU, PAUSED or
\* GAME_OVER changes no particle's lifetime and removes no particle.
C11_ParticlesOnlyWhilePlaying ==
    [][retro.pc = "events" /\ retro'.pc = "events"
       /\ retro.state # "PLAYING" /\ retro'.state # "PLAYING"
         => retro'.particles = retro.particles]_vars

\* the integers the digits of a file's text spell, with either sign
FileValues(file) ==
    LET value == digits_value(SelectSeq(file.text, IsDigit))
    IN  {value, 0 - value}

\* the text of a file is an integer written out, whitespace around it aside
HoldsInteger(file) ==
    file.kind = "text" /\ \E n \in FileValues(file) : strip(file.text) = str(n)

\* C12: load_high_score returns 0 when the high-score file is missing or
\* its content is not an integer, and the stored integer otherwise; each
\* outcome of save_high_score, a failed write included, leaves every field
\* of the game as it was, the file aside.
C12_HighScoreFile ==
    /\ ~HoldsInteger(unit.file) => load_high_score(unit.file) = 0
    /\ \A n \in FileValues(unit.file) :
         unit.file.kind = "text" /\ strip(unit.file.text) = str(n)
           => load_high_score(unit.file) = n
    /\ unit \in save_high_score(unit)
    /\ \A h \in save_high_score(unit) : [h EXCEPT !.file = unit.file] = unit

\* C12 witness: load_high_score has run on a file whose text is not an
\* integer and has returned 0.
C12_Witness ==
    /\ unit.loaded
    /\ unit.file.kind = "text"
    /\ Len(unit.file.text) = FileMaxLen
    /\ ~HoldsInteger(unit.file)
    /\ \E i \in 1..Len(unit.file.text) : IsDigit(unit.file.text[i])
    /\ unit.high_score = 0

C14_ExitCodes ==
    unit.pc = "exited"
      => /\ unit.cause \in {"Exception", "ImportError"}
              => unit.printed /\ unit.exit_code # 0
         /\ unit.cause = "quit" => unit.exit_code = 0

\* C15: in the Pi game, the number of live particles never exceeds
\* max_particles, whatever the sequence of apples eaten, deaths and
\* particle updates.
C15_ParticleCap == Len(pi.particles) <= PiMaxParticles

\* the particles of a list whose lifetime is above 0
LiveCount(particles) == Cardinality({i \in 1..Len(particles) : particles[i] > 0})

\* C16: after a call of the particle-update routine of any of the three
\* games, the list holds no particle whose lifetime was <= 0 before the
\* call: there are no more particles than were alive before, and each had
\* a lifetime above 0 before its decrement.
C16_NoDeadSurvivor ==
    \A dt \in part_elapsed(unit.variant) :
      LET after == part_update(unit.variant, unit.particles, dt)
      IN  /\ Len(after) <= LiveCount(unit.particles)
          /\ \A i \in 1..Len(after) : after[i] + dt > 0

\* C16 witness: an update has left a list with a particle at or below 0
\* next to one above 0, which the next call is applied to.
C16_Witness ==
    /\ unit.updates = 1
    /\ \E i \in 1..Len(unit.particles) : unit.particles[i] <= 0
    /\ \E i \in 1..Len(unit.particles) : unit.particles[i] > 0

\* C17: when ParticleSystem.update of the Pi or the realistic game
\* returns, every particle's lifetime has gone down by dt and no particle
\* of the list has a lifetime <= 0.
C17_NoDeadAfterUpdate ==
    unit.variant \in {"pi", "real"}
      => \A dt \in part_elapsed(unit.variant) :
           LET after == part_update(unit.variant, unit.particles, dt)
           IN  \A i \in 1..Len(after) : after[i] > 0

\* the cell the head moves to in a frame of a session
NewHead == Add(retro.snake[1], DirVec(retro'.direction))

\* C18: in the retro game, a move without food whose new head is the cell
\* that the tail vacates in that tick, or any cell that is inside the grid,
\* outside every obstacle and not a body cell still occupied after the tail
\* shift, does not end the game.
C18_TailCellIsFree ==
    [][(/\ retro.state = "PLAYING"
        /\ retro'.pc # "hung"
        /\ Len(retro.snake) > 1
        /\ NewHead # retro.food
        /\ NewHead \in RetroGrid
        /\ ~is_obstacle_at(retro, NewHead)
        /\ \A i \in 1..(Len(retro.snake) - 1) : retro.snake[i] # NewHead)
       => retro'.state # "GAME_OVER"]_vars

\* C19: in the retro game, a move made while invincibility is on whose
\* new head hits a wall, the snake's body or an obstacle does not end the
\* game: the head advances to that cell, food on it is eaten (one cell
\* longer, at least the food points more, new food off the snake), without
\* food the length and the food stay, and no power-up is left on that cell.
C19_InvincibleMove ==
    [][(/\ retro.state = "PLAYING"
        /\ retro'.game_time = retro.game_time + 1
        /\ retro'.pc # "hung"
        /\ update_effects(retro).invincible
        /\ retro_check_collision(retro, NewHead))
       => /\ retro'.state = "PLAYING"
          /\ retro'.snake[1] = NewHead
          /\ IF NewHead = retro.food
             THEN /\ Len(retro'.snake) = Len(retro.snake) + 1
                  /\ retro'.score >= retro.score + RetroFoodPoints
                  /\ retro'.food \notin Range(retro'.snake)
             ELSE /\ Len(retro'.snake) = Len(retro.snake)
                  /\ retro'.food = retro.food
          /\ NewHead \notin PowerUpCells(retro'.power_ups)]_vars

\* C19 witness: the game is under way, invincibility is on and the head
\* has advanced through the wall to a cell outside the grid.
C19_Witness ==
    /\ retro.state = "PLAYING"
    /\ retro.invincible
    /\ retro.snake[1] \notin RetroGrid

\* C20: in the retro game, after every tick of update_game
\* level = score \div 100 + 1 (with the model's score per level in the
\* place of 100), whatever mix of food and power-ups produced the score.
C20_LevelFollowsScore ==
    retro.state = "PLAYING" /\ retro.pc # "hung"
      => retro.level = retro.score \div RetroLevelStep + 1

\* C21: in the retro game, the obstacles that generate_obstacles has just
\* produced (game_time is still 0) cover no snake cell, and in every state
\* the food is on no obstacle cell and no power-up on the board is.
C21_ObstaclesOnFreeCells ==
    /\ retro.pc = "events" /\ retro.game_time = 0
         => \A c \in Range(retro.snake) : ~is_obstacle_at(retro, c)
    /\ retro.pc = "events"
         => \A c \in {retro.food} \cup PowerUpCells(retro.power_ups) :
              ~is_obstacle_at(retro, c)

\* C22: constructing SnakeGame runs reset_game to its end: spawn_food never
\* reads the obstacle list before reset_game has assigned it.
C22_ConstructorCompletes == unit.pc = "raised" => unit.raised # "AttributeError"

\* C23: in the Pi game, whatever key events were delivered since the last
\* move, a move of a snake of more than one segment does not put the head
\* on the cell of its second segment: the direction it commits is not the
\* opposite of the direction of the move before.
C23_NoReversal ==
    [][(/\ pi.pc = "frame"
        /\ ~pi.game_over
        /\ Len(pi.snake.segments) > 1
        /\ pi'.snake.segments # pi.snake.segments)
       => /\ pi'.snake.segments[1] # pi.snake.segments[2]
          /\ pi'.snake.direction # Opposite(pi.snake.direction)]_vars

\* C23 witness: a snake of more than one segment has moved after a turn:
\* its direction is no longer the initial one, its second segment is the
\* cell the head came from, and a further key has set a pending direction.
C23_Witness ==
    /\ pi.pc = "frame"
    /\ ~pi.game_over
    /\ Len(pi.snake.segments) > 1
    /\ pi.snake.direction # "RIGHT"
    /\ pi.snake.segments[2] = Add(pi.snake.segments[1], DirVec(Opposite(pi.snake.direction)))
    /\ pi.snake.next_direction # pi.snake.direction

\* C24: in the retro game, state PLAYING, a held arrow key makes its
\* direction the direction of this tick's move unless it is the exact
\* reverse of the current direction and the snake has more than one cell: a
\* one-cell snake can reverse.
C24_HeldArrowSetsDirection ==
    retro.pc = "events" /\ retro.state = "PLAYING"
      => \A d \in Direction :
           \A h \in handle_input(retro, {d}) :
             h.direction = IF d = Opposite(retro.direction) /\ Len(retro.snake) > 1
                           THEN retro.direction
                           ELSE d

\* C25: in the retro game, one press of SPACE causes at most one state
\* transition however long the key stays held: of two consecutive frames
\* of run in which SPACE is held and no new key-down event arrives, at most
\* one changes the state in handle_input.
C25_OnePressOneTransition ==
    retro.pc = "events"
      => \A h1 \in handle_input(retro, {"SPACE"}) :
           h1.pc # "hung"
             => \A f1 \in play_frame(h1, PowerUpType) :
                  f1.pc # "hung"
                    => \A h2 \in handle_input(f1, {"SPACE"}) :
                         ~(h1.state # retro.state /\ h2.state # f1.state)

\* C26: Snake.update(dt) of the Pi and of the realistic variant adds dt to
\* the movement timer; below move_delay nothing else changes, and once the
\* timer has reached move_delay the call resets it to 0 and performs exactly
\* one move, however large dt is: the head is one cell further in the
\* pending direction and the second segment is where the head was.
C26_UpdateCadence ==
    unit.pc = "cadence"
      => \A dt \in CadDts :
           LET a  == unit.a
               ua == snake_update(a, dt)
               b  == unit.b
               ub == real_snake_update(b, dt)
           IN  /\ IF a.move_timer + dt < a.move_delay
                  THEN /\ ua.move_timer = a.move_timer + dt
                       /\ ua.segments = a.segments
                       /\ ua.direction = a.direction
                  ELSE /\ ua.move_timer = 0
                       /\ ua.segments[1] = Add(a.segments[1], DirVec(a.next_direction))
                       /\ Len(ua.segments) \in {Len(a.segments), Len(a.segments) + 1}
                       /\ Len(ua.segments) > 1 => ua.segments[2] = a.segments[1]
               /\ IF b.move_timer + dt < b.move_delay
                  THEN /\ ub.move_timer = b.move_timer + dt
                       /\ RealCells(ub) = RealCells(b)
                       /\ ub.direction = b.direction
                  ELSE /\ ub.move_timer = 0
                       /\ RealCells(ub)[1] = Add(RealCells(b)[1], DirVec(b.next_direction))
                       /\ Len(ub.segments) \in {Len(b.segments), Len(b.segments) + 1}
                       /\ Len(ub.segments) > 1 => RealCells(ub)[2] = RealCells(b)[1]

\* C26 witness: the first call of update had a dt of more than two move
\* delays: both timers are 0 again and both heads are exactly one cell from
\* the start cell.
C26_Witness ==
    /\ unit.pc = "cadence"
    /\ unit.updates = 1
    /\ unit.last > 2 * PiMoveDelay
    /\ unit.a.move_timer = 0 /\ unit.a.segments[1] = <<1, 0>>
    /\ unit.b.move_timer = 0 /\ RealCells(unit.b)[1] = <<1, 0>>

\* C27: the move of the Pi Snake and the move of the realistic Snake are
\* equivalent: after the same set_direction, grow and move calls from the
\* same start, both snakes have the same sequence of segment cells, the
\* same direction, pending direction and growing flag.
C27_MovesEquivalent ==
    /\ RealCells(unit.b) = unit.a.segments
    /\ unit.b.direction = unit.a.direction
    /\ unit.b.next_direction = unit.a.next_direction
    /\ unit.b.growing = unit.a.growing

\* C27 witness: both snakes have grown to three segments through moves and
\* have turned away from the initial direction.
C27_Witness ==
    /\ Len(unit.a.segments) = 3 /\ Len(unit.b.segments) = 3
    /\ unit.a.direction = "DOWN" /\ unit.b.direction = "DOWN"
    /\ ~unit.a.growing /\ ~unit.b.growing
    /\ unit.a.segments[3] # unit.a.segments[1]

\* C28: in the Pi game, at the end of every update call in which game_over
\* is false the apple exists and is on a cell that is neither a snake
\* segment nor an obstacle, so that no apple is consumed in two frames.
C28_AppleOnFreeCell ==
    pi.pc = "frame" /\ ~pi.game_over
      => /\ pi.apple # None
         /\ ~check_collision(pi.snake, pi.apple)
         /\ ~is_obstacle(pi, pi.apple)

\* C29: in the Pi game, at the end of every update call in which game_over
\* is false all snake segments are inside the grid, pairwise distinct and
\* off the obstacles, the obstacles are pairwise distinct and none is on the
\* apple; and once game_over is true the snake does not move until
\* reset_game.
C29_BoardConsistent ==
    /\ [](pi.pc = "frame" /\ ~pi.game_over
            => LET segments == pi.snake.segments
               IN  /\ \A i \in 1..Len(segments) : segments[i] \in PiCells
                   /\ \A i, j \in 1..Len(segments) : i # j => segments[i] # segments[j]
                   /\ \A i \in 1..Len(segments) : ~is_obstacle(pi, segments[i])
                   /\ \A i, j \in 1..Len(pi.obstacles) :
                        i # j => pi.obstacles[i] # pi.obstacles[j]
                   /\ pi.apple # None => ~is_obstacle(pi, pi.apple))
    /\ [][pi.pc = "frame" /\ pi.game_over /\ pi'.game_over
            => pi'.snake.segments = pi.snake.segments]_vars

\* C29 witness: a game that is not over in which the snake has grown and an
\* obstacle stands on the board next to it.
C29_Witness ==
    /\ pi.pc = "frame"
    /\ ~pi.game_over
    /\ Len(pi.snake.segments) >= 2
    /\ Len(pi.obstacles) >= 1
    /\ pi.apple # None

\* a tick of update_game in state PLAYING
EffectTick ==
    /\ retro.state = "PLAYING"
    /\ retro'.game_time = retro.game_time + 1
    /\ retro'.pc # "hung"

C32_SpeedIsBaseSpeed ==
    retro.pc = "events" /\ DOMAIN retro.effect_timers \cap {"speed_boost", "slow_down"} = {}
      => retro.speed = retro.base_speed

\* C32 witness: the last tick of a session in which the one power-up, with
\* a timed effect, was collected and its timer has run out: no speed timer
\* is active and the speed is the base speed.
C32_Witness ==
    /\ retro.state = "PLAYING"
    /\ retro.game_time = EffectMaxTime
    /\ retro.score = RetroPowerUpPoints
    /\ DOMAIN retro.effect_timers \cap {"speed_boost", "slow_down"} = {}
    /\ ~retro.invincible /\ ~retro.double_points
    /\ retro.speed = retro.base_speed

\* C33: in the retro game, applying a GROW power-up appends exactly 3
\* copies of the tail cell, applying SHRINK removes exactly the last 2 cells
\* of a snake longer than 3 and leaves a shorter one unchanged, every
\* power-up applied adds exactly 5 to the score, a tick leaves no power-up
\* on the cell the head has moved to, and the snake is never empty.
C33_PowerUpEffects ==
    /\ [](retro.pc # "hung"
            => /\ Len(retro.snake) >= 1
               /\ \A type \in PowerUpType :
                    LET n == Len(retro.snake)
                        r == apply_power_up(retro, PowerUp(0, 0, type))
                    IN  /\ r.score = retro.score + 5
                        /\ type = "GROW"
                             => /\ Len(r.snake) = n + 3
                                /\ SubSeq(r.snake, 1, n) = retro.snake
                                /\ \A i \in (n + 1)..(n + 3) : r.snake[i] = retro.snake[n]
                        /\ type = "SHRINK"
                             => r.snake = IF n > 3
                                          THEN SubSeq(retro.snake, 1, n - 2)
                                          ELSE retro.snake
                        /\ type \notin {"GROW", "SHRINK"} => r.snake = retro.snake)
    /\ [][(/\ retro.state = "PLAYING"
           /\ retro'.game_time = retro.game_time + 1
           /\ retro'.pc # "hung"
           /\ retro'.state = "PLAYING")
          => /\ retro'.snake[1] = NewHead
             /\ NewHead \notin PowerUpCells(retro'.power_ups)
             /\ \E k \in 0..RetroMaxPowerUps :
                  retro'.score - retro.score
                    \in {5 * k, 5 * k + RetroFoodPoints, 5 * k + 2 * RetroFoodPoints}]_vars

\* C33 witness: a one-cell snake has collected a GROW power-up: it has four
\* cells, the last three on the tail cell, the score is the 5 points of the
\* power-up and the board holds no power-up.
C33_Witness ==
    /\ retro.state = "PLAYING"
    /\ Len(retro.snake) = 1 + RetroGrowCells
    /\ \A i \in 2..Len(retro.snake) : retro.snake[i] = retro.snake[1]
    /\ retro.score = RetroPowerUpPoints
    /\ retro.power_ups = <<>>

\* C34: once a quit event has been read in a frame the loop exits without
\* a further simulation update in that frame; here for the Pi game: the
\* step that follows the quit event leaves every field of the game as the
\* event found it.
C34_QuitEndsFrame ==
    [][pi.pc = "quit" => pi' = [pi EXCEPT !.pc = "exited"]]_vars

\* C35: in the Pi game the R key has an effect only when game_over is true,
\* and it then restores the initial session: a one-segment snake on the
\* centre cell heading RIGHT, growing clear, move timer 0 and the initial
\* move_delay, score 0, no apples eaten, no obstacles, game_over and paused
\* false; while the game is running R changes nothing.
C35_RestartKey ==
    /\ [](pi.pc = "frame"
            => \A h \in handle_event(pi, "r") :
                 IF pi.game_over
                 THEN /\ h.snake = Snake(PiGridWidth \div 2, PiGridHeight \div 2)
                      /\ h.snake.segments = << <<PiGridWidth \div 2, PiGridHeight \div 2>> >>
                      /\ h.snake.direction = "RIGHT" /\ h.snake.next_direction = "RIGHT"
                      /\ ~h.snake.growing
                      /\ h.snake.move_timer = 0 /\ h.snake.move_delay = PiMoveDelay
                      /\ h.score = 0 /\ h.apples_eaten = 0
                      /\ h.obstacles = <<>>
                      /\ ~h.game_over /\ ~h.paused
                 ELSE h = pi)
    /\ [][pi.pc = "frame" /\ pi.game_over /\ ~pi'.game_over
            => /\ pi'.snake = Snake(PiGridWidth \div 2, PiGridHeight \div 2)
               /\ pi'.score = 0 /\ pi'.apples_eaten = 0
               /\ pi'.obstacles = <<>>
               /\ ~pi'.paused]_vars

\* C35 witness: a session restarted with R after a game over: the snake is
\* the initial one and the score is 0, while the particles of the death
\* burst, which reset_game leaves alone, are still in the list.
C35_Witness ==
    /\ pi.pc = "frame"
    /\ ~pi.game_over
    /\ pi.snake = Snake(PiGridWidth \div 2, PiGridHeight \div 2)
    /\ pi.score = 0 /\ pi.apples_eaten = 0
    /\ Len(pi.particles) >= PiDeathBurst

\* C36: the elapsed time passed to Game.update in a frame never exceeds
\* 50 ms; here for the realistic game, where the time shows in the snake's
\* move timer: a frame that does not move the snake advances the timer by
\* the dt it was given, so the advance is at most 50 ms.
C36_DtIsCapped ==
    [][real.pc = "frame" /\ real'.pc = "frame"
         => real'.snake.move_timer - real.snake.move_timer <= PiDtCap]_vars

\* C37: ecosystem program: when hunger is above 100 or energy is at or
\* below 0 after the metabolism step of an update, that same update resets
\* the whole simulation (15 segments, speed 0, hunger 0, energy 100, score
\* 0, 20 prey) and the program keeps running, with no game-over state; and
\* in every reachable state the score is 10 times the number of segments
\* beyond the first 15.
C37_ResetOnStarvation ==
    /\ unit.pc \in {"eco", "exited"}
    /\ unit.score = 10 * (Len(unit.snake) - 15)
    /\ unit.pc = "eco"
         => \A i \in EcoInputs(unit) :
              LET h == eco_handle_input(unit, i.space)
                  m == eco_metabolism(h, i.dt, i.died, i.caught)
                  u == eco_update(h, i.dt, i.died, i.caught)
              IN  IF m.hunger > 200 \/ m.energy <= 0
                  THEN /\ Len(u.snake) = 15
                       /\ u.speed = 0 /\ u.hunger = 0 /\ u.energy = 200
                       /\ u.score = 0 /\ u.prey = 20
                       /\ u.pc = "eco"
                  ELSE u = m

\* C37 witness: a snake that has grown and scored, one frame away from
\* starving: the next update takes hunger above 100 while energy is left.
C37_Witness ==
    /\ unit.pc = "eco"
    /\ Len(unit.snake) > 15 /\ unit.score > 0
    /\ \E i \in EcoInputs(unit) :
         LET m == eco_metabolism(eco_handle_input(unit, i.space), i.dt, i.died, i.caught)
         IN  m.hunger > 200 /\ m.energy > 0 /\ Len(m.snake) > 15

\* C38: retro game: every obstacle rectangle the four shape generators
\* produce lies entirely inside the 40 by 30 grid (0 <= x, x + width <= 40,
\* 0 <= y, y + height <= 30); a generate_obstacles call creates exactly
\* min(3 + level // 2, 8) shapes, a cross and a corner being two rectangles
\* each, and the obstacles that were in the list before are discarded.
C38_ObstaclesInGrid ==
    LET of_pattern(p) == {i \in 1..Len(unit.obstacles) : unit.obstacles[i].pattern = p}
        shapes == Cardinality(of_pattern("line")) + Cardinality(of_pattern("box"))
                    + Cardinality(of_pattern("cross")) \div 2
                    + Cardinality(of_pattern("corner")) \div 2
    IN  /\ \A i \in 1..Len(unit.obstacles) :
             LET o == unit.obstacles[i]
             IN  /\ 0 <= o.x /\ o.x + o.width <= 40
                 /\ 0 <= o.y /\ o.y + o.height <= 30
        /\ unit.pc = "generated"
             => /\ shapes = (IF 3 + unit.level \div 2 < 8 THEN 3 + unit.level \div 2 ELSE 8)
                /\ Len(unit.obstacles) <= 2 * shapes

\* C38 witness: generate_obstacles has run at level 12 on a game that still
\* held an obstacle: the list is eight crosses, drawn at the upper limit of
\* both random ranges.
C38_Witness ==
    /\ unit.pc = "generated"
    /\ unit.level = 12
    /\ unit.previous # <<>>
    /\ Len(unit.obstacles) = 16
    /\ unit.obstacles[1] = PatternObstacle(36, 25, 1, 3, "cross")

====
